---- MODULE Spec2Model ----
(***************************************************************************)
(* Verification model of the FinanceTracker server: the category spend     *)
(* aggregation and budget-alert evaluation (server/mongo-routes.ts,        *)
(* budget-alerts.ts), the transaction-creation handler with its alert      *)
(* e-mail side effect, the bill-reminder matcher (email-reminders.ts), the *)
(* e-mail dispatch (email.ts) and the per-id ownership checks of the REST  *)
(* route tables.                                                           *)
(***************************************************************************)
EXTENDS Integers, Sequences, FiniteSets, TLC

VARIABLES
    routeTable,     \* which version of the route table is deployed
    hasEmail,       \* hasEmail[u]: user u has a non-empty email field
    apiKeySet,      \* SENDGRID_API_KEY is set in the environment
    adminKey,       \* ADMIN_API_KEY of the environment (NoKey: not set)
    uploads,        \* the files in the uploads directory
    transactions,   \* stored Transaction documents, in insertion order
    budgets,        \* stored Budget documents, in insertion order
    categories,     \* stored Category documents, in insertion order
    bills,          \* stored Bill documents, in insertion order
    entities,       \* per-id CRUD store: documents of the six entity kinds
    now,            \* the clock, in ticks (TicksPerDay ticks make a day)
    response,       \* the last response / result produced by an operation
    mailLog         \* messages handed to the e-mail provider (mailService.send)

vars == <<routeTable, hasEmail, apiKeySet, adminKey, uploads, transactions,
          budgets, categories, bills, entities, now, response, mailLog>>

-----------------------------------------------------------------------------
(* Identities.  ObjectIds / serial ids are small naturals; 0 is null.      *)

Users == {1, 2}
NoUser == 0
CategoryIds == {1, 2}
NoCategory == 0

\* a key is a small natural; NoKey is an environment variable that is not
\* set, or a body field that is absent (undefined)
NoKey == 0

RouteTables == {"mongo-routes", "part_000", "part_001", "routes"}

NoResponse == [route |-> "none"]

-----------------------------------------------------------------------------
(* Generic sequence helpers.                                               *)

RECURSIVE SumSeq(_)
SumSeq(s) == IF s = <<>> THEN 0 ELSE Head(s) + SumSeq(Tail(s))

Take(s, n) == IF Len(s) <= n THEN s ELSE SubSeq(s, 1, n)

Range(s) == {s[i] : i \in 1..Len(s)}

-----------------------------------------------------------------------------
(* JavaScript numbers as far as the percentage computation needs them: a   *)
(* finite integer, +Infinity (x/0 with x > 0) or NaN (0/0).                *)

JsNum(n) == [kind |-> "num", val |-> n]
JsInfinity == [kind |-> "inf", val |-> 0]
JsNaN == [kind |-> "nan", val |-> 0]

\* JS `p >= t` for a percentage p and a finite threshold t:
\* NaN compares false with everything, Infinity is above every number.
JsGe(p, t) ==
    CASE p.kind = "num" -> p.val >= t
      [] p.kind = "inf" -> TRUE
      [] OTHER -> FALSE

\* round(100 * spent / amount), rounding halves up, in exact arithmetic.
ExactPercent(spent, amount) == (200 * spent + amount) \div (2 * amount)

\* The pairs <<spent, amount>> (amount 40, spent up to 700) for which the
\* IEEE-754 double product (spent / amount) * 100 lies just below k + 1/2
\* although 100 * spent / amount is exactly k + 1/2: spent / amount is not
\* representable and is rounded down before it is multiplied by 100
\* ((23 / 40) * 100 = 57.49999999999999).  For every other pair with
\* amount in {40, 100} and spent <= 700 the double product rounds as the
\* exact quotient does.
DoubleBelowHalf ==
    {<<s, 40>> : s \in {23, 41, 51, 87, 97, 169, 179, 189, 199, 323, 333,
                        343, 353, 363, 373, 383, 393, 403, 641, 651, 661,
                        671, 681, 691}}

\* Math.round((spent / amount) * 100) for spent >= 0 and amount >= 0.
MathRoundPercent(spent, amount) ==
    IF amount = 0
    THEN IF spent = 0 THEN JsNaN ELSE JsInfinity
    ELSE IF <<spent, amount>> \in DoubleBelowHalf
         THEN JsNum(ExactPercent(spent, amount) - 1)
         ELSE JsNum(ExactPercent(spent, amount))

-----------------------------------------------------------------------------
(* Storage reads (DatabaseStorage).                                        *)

DefaultLimit == 50

\* .filter(d => d.userId === userId) / where(eq(userId)): the documents of
\* one user in stored order, selected half after half
RECURSIVE SelectByUser(_, _)
SelectByUser(docs, userId) ==
    IF Len(docs) = 0 THEN <<>>
    ELSE IF Len(docs) = 1
         THEN (IF docs[1].userId = userId THEN <<docs[1]>> ELSE <<>>)
    ELSE LET half == Len(docs) \div 2
         IN  SelectByUser(SubSeq(docs, 1, half), userId)
             \o SelectByUser(SubSeq(docs, half + 1, Len(docs)), userId)

\* orderBy(desc(transactions.date)): the stored sequence is in date order,
\* the newest transaction last
OrderByDateDesc(txs) == [i \in 1..Len(txs) |-> txs[Len(txs) + 1 - i]]

\* getTransactionsByUserId(userId, limit = 50); the handlers pass no limit.
TransactionsByUserId(txs, userId) ==
    Take(OrderByDateDesc(SelectByUser(txs, userId)), DefaultLimit)

getTransactionsByUserId(userId) == TransactionsByUserId(transactions, userId)

getBudgetsByUserId(userId) == SelectByUser(budgets, userId)

getCategoriesByUserId(userId) == SelectByUser(categories, userId)

\* the `storage` object handed to checkBudgetAlerts
Storage ==
    [transactions |-> transactions, budgets |-> budgets, categories |-> categories]

-----------------------------------------------------------------------------
(* Category Spend Aggregator: the Map built by the loop                    *)
(*   for (t of transactions) if (t.categoryId && !t.isIncome)              *)
(*     map.set(c, (map.get(c) || 0) + t.amount)                            *)
(* kept as the sequence of its entries in insertion order.                 *)

MapHas(m, c) == \E i \in 1..Len(m) : m[i].categoryId = c

\* map.get(c) || 0
MapGetOr0(m, c) ==
    IF MapHas(m, c)
    THEN (CHOOSE e \in Range(m) : e.categoryId = c).spent
    ELSE 0

MapSet(m, c, v) ==
    IF MapHas(m, c)
    THEN LET i == CHOOSE j \in 1..Len(m) : m[j].categoryId = c
         IN  [m EXCEPT ![i] = [categoryId |-> c, spent |-> v]]
    ELSE Append(m, [categoryId |-> c, spent |-> v])

\* One iteration of the aggregation loop.
SpendStepDropsIncomeTest(m, t) ==
    IF t.categoryId # NoCategory
    THEN MapSet(m, t.categoryId, MapGetOr0(m, t.categoryId) + t.amount)
    ELSE m

SpendStep(m, t) ==
    IF t.categoryId # NoCategory /\ ~t.isIncome
    THEN MapSet(m, t.categoryId, MapGetOr0(m, t.categoryId) + t.amount)
    ELSE m

\* The loop, first transaction to last; a list of several transactions is
\* folded half after half, which visits them in the same order.
RECURSIVE SpendFold(_, _)
SpendFold(m, txs) ==
    IF txs = <<>> THEN m
    ELSE IF Len(txs) = 1 THEN SpendStep(m, txs[1])
    ELSE LET half == Len(txs) \div 2
             sofar == SpendFold(m, SubSeq(txs, 1, half))
         IN  \* the map after the first half exists before the second half
             \* is visited
             IF Len(sofar) >= 0
             THEN SpendFold(sofar, SubSeq(txs, half + 1, Len(txs)))
             ELSE sofar

categorySpending(txs) == SpendFold(<<>>, txs)

-----------------------------------------------------------------------------
(* Budget Alert Evaluator.                                                 *)

\* categoryMap.get(categoryId) || `Category ${categoryId}`
CategoryName(cats, c) ==
    IF \E i \in 1..Len(cats) : cats[i].id = c
    THEN <<"name", c>>
    ELSE <<"Category", c>>

Alert(c, name, amount, spent, percentSpent, isExceeded) ==
    [categoryId |-> c, categoryName |-> name, amount |-> amount,
     spent |-> spent, percentSpent |-> percentSpent, isExceeded |-> isExceeded]

\* The body of the loop over budgets in GET /api/budgets/alerts:
\* the alerts (none or one) pushed for one budget.
AlertsForBudget(budget, spending, cats) ==
    LET c == budget.categoryId
        spent == MapGetOr0(spending, c)
        percentSpent == MathRoundPercent(spent, budget.amount)
        isExceeded == spent > budget.amount
        isApproaching == JsGe(percentSpent, budget.alertThreshold) /\ ~isExceeded
    IN  IF isExceeded \/ isApproaching
        THEN <<Alert(c, CategoryName(cats, c), budget.amount, spent,
                     percentSpent, isExceeded)>>
        ELSE <<>>

\* the loop over budgets putting each new alert in front (alerts.unshift)
RECURSIVE AlertsFoldUnshift(_, _, _)
AlertsFoldUnshift(bs, spending, cats) ==
    IF bs = <<>> THEN <<>>
    ELSE AlertsFoldUnshift(Tail(bs), spending, cats)
         \o AlertsForBudget(Head(bs), spending, cats)

RECURSIVE AlertsFold(_, _, _)
AlertsFold(bs, spending, cats) ==
    IF bs = <<>> THEN <<>>
    ELSE AlertsForBudget(Head(bs), spending, cats)
         \o AlertsFold(Tail(bs), spending, cats)

\* The alert list of GET /api/budgets/alerts for user u.
budgetAlerts(u) ==
    AlertsFold(getBudgetsByUserId(u),
               categorySpending(getTransactionsByUserId(u)),
               getCategoriesByUserId(u))

\* checkBudgetAlerts(storage, transaction): null (<<>>) or a one-alert list
\* for the first budget of the transaction's user and category.
NullAlerts == <<>>

checkBudgetAlerts(storage, t) ==
    IF t.isIncome \/ t.categoryId = NoCategory THEN NullAlerts
    ELSE LET bs == SelectSeq(SelectByUser(storage.budgets, t.userId),
                             LAMBDA b : b.categoryId = t.categoryId)
         IN  IF bs = <<>> THEN NullAlerts
             ELSE LET budget == Head(bs)
                      spending == categorySpending(
                                    TransactionsByUserId(storage.transactions, t.userId))
                      spent == MapGetOr0(spending, t.categoryId)
                      percentSpent == MathRoundPercent(spent, budget.amount)
                      name == CategoryName(SelectByUser(storage.categories, t.userId),
                                           t.categoryId)
                  IN  IF spent > budget.amount
                      THEN <<Alert(t.categoryId, name, budget.amount, spent,
                                   percentSpent, TRUE)>>
                      ELSE IF JsGe(percentSpent, budget.alertThreshold)
                           THEN <<Alert(t.categoryId, name, budget.amount, spent,
                                        percentSpent, FALSE)>>
                           ELSE NullAlerts

-----------------------------------------------------------------------------
(* Notification dispatch (email.ts, budget-alerts.ts, email-reminders.ts). *)
(* A call yields: threw (an exception left the function), result (the      *)
(* boolean returned when it did not throw) and sent (the messages handed   *)
(* to mailService.send, each with whether the provider accepted it).       *)

JsUndefined == [kind |-> "undefined", val |-> 0]
JsObject == [kind |-> "object", val |-> 0]

Threw == [threw |-> TRUE, result |-> FALSE, sent |-> <<>>]
Returned(b, sent) == [threw |-> FALSE, result |-> b, sent |-> sent]

\* x.toFixed(2) is a TypeError unless x is a number.
ToFixedThrows(x) == x.kind \in {"undefined", "object"}

\* email.ts sendEmail(params): false without an API key, otherwise one
\* mailService.send whose rejection is caught and turned into false.
sendEmail(to, providerOk) ==
    IF ~apiKeySet THEN Returned(FALSE, <<>>)
    ELSE Returned(providerOk, <<[to |-> to, accepted |-> providerOk]>>)

\* email.ts sendBudgetAlertEmail(userEmail, userName, categoryName,
\* budgetAmount, spentAmount, threshold, isExceeded): the templates call
\* budgetAmount.toFixed(2) and spentAmount.toFixed(2) before sendEmail.
emailSendBudgetAlertEmail(userEmail, budgetAmount, spentAmount, providerOk) ==
    IF ToFixedThrows(budgetAmount) \/ ToFixedThrows(spentAmount)
    THEN Threw
    ELSE sendEmail(userEmail, providerOk)

\* budget-alerts.ts sendBudgetAlertEmail({to, categoryName, budgetAmount,
\* spentAmount, isExceeded}): renders its own subject and text, then calls
\* what it imported as `sendEmail`, which is email.ts sendBudgetAlertEmail,
\* with the single argument {to, from, subject, text, html}: the object
\* arrives as userEmail and every other parameter is undefined.
budgetAlertsSendBudgetAlertEmail(params, providerOk) ==
    IF ToFixedThrows(params.budgetAmount) \/ ToFixedThrows(params.spentAmount)
    THEN Threw
    ELSE emailSendBudgetAlertEmail(JsObject, JsUndefined, JsUndefined, providerOk)

\* The call `sendBudgetAlertEmail({to, categoryName, budgetAmount,
\* spentAmount, isExceeded})` made by POST /api/transactions: mongo-routes.ts
\* imports the function from ./budget-alerts, part_000 and part_001 import it
\* from ./email and pass the same single object.
routeSendBudgetAlertEmail(table, params, providerOk) ==
    IF table = "mongo-routes"
    THEN budgetAlertsSendBudgetAlertEmail(params, providerOk)
    ELSE emailSendBudgetAlertEmail(JsObject, JsUndefined, JsUndefined, providerOk)

-----------------------------------------------------------------------------
(* Document constructors.                                                  *)

Tx(id, userId, categoryId, amount, isIncome) ==
    [id |-> id, userId |-> userId, categoryId |-> categoryId,
     amount |-> amount, isIncome |-> isIncome]

Budget(id, userId, categoryId, amount, alertThreshold) ==
    [id |-> id, userId |-> userId, categoryId |-> categoryId,
     amount |-> amount, alertThreshold |-> alertThreshold]

Category(id, userId) == [id |-> id, userId |-> userId]

\* The user-owned categories every specification starts with:
\* category c belongs to user 1.
SeedCategories == <<Category(1, 1), Category(2, 1)>>

-----------------------------------------------------------------------------
(* Read-only handlers: they answer from the stored documents.              *)

\* what the GET /api/budgets/spending handler answers
SpendingResponse(u) ==
    IF u = NoUser
    THEN [route |-> "GET /api/budgets/spending", user |-> u, status |-> 401]
    ELSE [route |-> "GET /api/budgets/spending", user |-> u, status |-> 200,
          body |-> categorySpending(getTransactionsByUserId(u))]

\* what the GET /api/budgets/alerts handler answers
AlertsResponse(u) ==
    IF u = NoUser
    THEN [route |-> "GET /api/budgets/alerts", user |-> u, status |-> 401]
    ELSE [route |-> "GET /api/budgets/alerts", user |-> u, status |-> 200,
          body |-> budgetAlerts(u)]

\* GET /api/budgets/spending, removing the transactions it has counted
GetBudgetSpendingConsumes(u) ==
    /\ response' = SpendingResponse(u)
    /\ transactions' = SelectSeq(transactions, LAMBDA t : t.userId # u)
    /\ UNCHANGED <<routeTable, hasEmail, apiKeySet, adminKey, uploads,
                   budgets, categories, bills, entities, now, mailLog>>

\* GET /api/budgets/spending
GetBudgetSpending(u) ==
    /\ response' = SpendingResponse(u)
    /\ UNCHANGED <<routeTable, hasEmail, apiKeySet, adminKey, uploads,
                   transactions, budgets, categories, bills, entities, now,
                   mailLog>>

\* GET /api/budgets/alerts
GetBudgetAlerts(u) ==
    /\ response' = AlertsResponse(u)
    /\ UNCHANGED <<routeTable, hasEmail, apiKeySet, adminKey, uploads,
                   transactions, budgets, categories, bills, entities, now,
                   mailLog>>

\* checkBudgetAlerts(storage, transactions[i]) called on a stored transaction.
CheckBudgetAlerts(i) ==
    /\ i \in 1..Len(transactions)
    /\ response' = [route |-> "checkBudgetAlerts", tx |-> transactions[i],
                    body |-> checkBudgetAlerts(Storage, transactions[i])]
    /\ UNCHANGED <<routeTable, hasEmail, apiKeySet, adminKey, uploads,
                   transactions, budgets, categories, bills, entities, now,
                   mailLog>>

-----------------------------------------------------------------------------
(* POST /api/budgets and POST /api/transactions.                           *)

MaxTx == 2
MaxBudgets == 1
DefaultAlertThreshold == 80
TxAmounts == {50, 150}
BudgetAmounts == {100}
BudgetCategories == {1}
NoTx == [id |-> 0]

\* user 1 has an email address, user 2 has none (the handlers test
\* `req.user.email` / `user.email` before they send)
UserHasEmail == [u \in Users |-> u = 1]

\* POST /api/budgets: alertThreshold is left to the schema default.
PostBudget(u, c, amount) ==
    /\ Len(budgets) < MaxBudgets
    /\ IF u = NoUser
       THEN /\ response' = [route |-> "POST /api/budgets", user |-> u, status |-> 401]
            /\ UNCHANGED budgets
       ELSE LET b == Budget(Len(budgets) + 1, u, c, amount, DefaultAlertThreshold)
            IN  /\ budgets' = Append(budgets, b)
                /\ response' = [route |-> "POST /api/budgets", user |-> u,
                                status |-> 201, body |-> b]
    /\ UNCHANGED <<routeTable, hasEmail, apiKeySet, adminKey, uploads,
                   transactions, categories, bills, entities, now, mailLog>>

\* The loop `for (const alert of alerts) if (req.user.email) await
\* sendBudgetAlertEmail({...})`: the calls made, the messages that reached
\* the provider, and whether a call threw (which leaves the loop).
RECURSIVE NotifyLoop(_, _, _, _)
NotifyLoop(table, alerts, u, providerOk) ==
    IF alerts = <<>> \/ ~hasEmail[u]
    THEN [threw |-> FALSE, calls |-> 0, sent |-> <<>>]
    ELSE LET r == routeSendBudgetAlertEmail(table,
                      [to |-> u, budgetAmount |-> JsNum(Head(alerts).amount),
                       spentAmount |-> JsNum(Head(alerts).spent)], providerOk)
         IN  IF r.threw
             THEN [threw |-> TRUE, calls |-> 1, sent |-> r.sent]
             ELSE LET rest == NotifyLoop(table, Tail(alerts), u, providerOk)
                  IN  [threw |-> rest.threw, calls |-> 1 + rest.calls,
                       sent |-> r.sent \o rest.sent]

PostResponse(u, status, stored, t, alerts, evaluated, calls, failure) ==
    [route |-> "POST /api/transactions", user |-> u, status |-> status,
     failure |-> failure,
     stored |-> stored, transaction |-> t, alerts |-> alerts,
     evaluated |-> evaluated, notifyCalls |-> calls]

\* POST /api/transactions of mongo-routes.ts, part_000 and part_001.
\* failure names the storage call that rejects, if any: "create"
\* (createTransaction), "read" (the getTransactionsByUserId that precedes the
\* alert check) or "check" (a read inside checkBudgetAlerts, which catches it
\* and returns null).
PostTransaction(u, body, failure, providerOk) ==
    /\ routeTable \in {"mongo-routes", "part_000", "part_001"}
    /\ Len(transactions) < MaxTx
    /\ UNCHANGED <<routeTable, hasEmail, apiKeySet, adminKey, uploads,
                   budgets, categories, bills, entities, now>>
    /\ LET t == Tx(Len(transactions) + 1, u, body.categoryId, body.amount, body.isIncome)
           stored == Append(transactions, t)
           evaluates == t.categoryId # NoCategory /\ ~t.isIncome
       IN
       IF u = NoUser
       THEN /\ response' = PostResponse(u, 401, FALSE, NoTx, <<>>, FALSE, 0, failure)
            /\ UNCHANGED <<transactions, mailLog>>
       ELSE IF failure = "create"
       THEN /\ response' = PostResponse(u, 500, FALSE, NoTx, <<>>, FALSE, 0, failure)
            /\ UNCHANGED <<transactions, mailLog>>
       ELSE IF ~evaluates
       THEN /\ transactions' = stored
            /\ response' = PostResponse(u, 201, TRUE, t, <<>>, FALSE, 0, failure)
            /\ UNCHANGED mailLog
       ELSE IF failure = "read"
       THEN /\ transactions' = stored
            /\ response' = PostResponse(u, 500, TRUE, t, <<>>, FALSE, 0, failure)
            /\ UNCHANGED mailLog
       ELSE /\ transactions' = stored
            /\ LET alerts == IF failure = "check" THEN NullAlerts
                             ELSE checkBudgetAlerts(
                                      [Storage EXCEPT !.transactions = stored], t)
                   n == NotifyLoop(routeTable, alerts, u, providerOk)
               IN  /\ mailLog' = mailLog \o n.sent
                   /\ response' =
                        IF n.threw
                        THEN PostResponse(u, 201, TRUE, t, <<>>, TRUE, n.calls, failure)
                        ELSE PostResponse(u, 201, TRUE, t, alerts, TRUE, n.calls, failure)

\* request bodies: expenses in the budgeted category 1 and in category 2,
\* an income and an uncategorized expense
TxBodies ==
    {[categoryId |-> 1, amount |-> a, isIncome |-> FALSE] : a \in TxAmounts}
    \cup {[categoryId |-> 2, amount |-> 150, isIncome |-> FALSE],
          [categoryId |-> 1, amount |-> 150, isIncome |-> TRUE],
          [categoryId |-> NoCategory, amount |-> 150, isIncome |-> FALSE]}

\* which storage call rejects, and whether the mail provider accepts; the
\* provider's answer is only drawn when no storage call rejects
Environments ==
    {[failure |-> "none", providerOk |-> ok] : ok \in BOOLEAN}
    \cup {[failure |-> f, providerOk |-> TRUE] : f \in {"create", "read", "check"}}

Init ==
    /\ routeTable \in {"mongo-routes", "part_000"}
    /\ hasEmail = UserHasEmail
    /\ apiKeySet = TRUE
    /\ adminKey = NoKey
    /\ uploads = {}
    /\ transactions = <<>>
    /\ budgets = <<>>
    /\ categories = SeedCategories
    /\ bills = <<>>
    /\ entities = <<>>
    /\ now = 0
    /\ response = NoResponse
    /\ mailLog = <<>>

Next ==
    \/ \E u \in Users \cup {NoUser}, c \in BudgetCategories, a \in BudgetAmounts :
          PostBudget(u, c, a)
    \/ \E u \in Users \cup {NoUser}, body \in TxBodies, env \in Environments :
          PostTransaction(u, body, env.failure, env.providerOk)

Spec == Init /\ [][Next]_vars

-----------------------------------------------------------------------------
(* SpecSteps: POST /api/transactions taken one await at a time.  The       *)
(* handler first awaits storage.createTransaction and only then reads the  *)
(* history, evaluates the alerts and sends the emails; the process may     *)
(* stop between the two.  While a request is between its two steps the     *)
(* response variable holds it.                                             *)

InFlight == response.route = "in flight"

\* the handler up to and including `await storage.createTransaction(...)`
CreateStep(u, body, failure) ==
    /\ routeTable \in {"mongo-routes", "part_000", "part_001"}
    /\ ~InFlight
    /\ Len(transactions) < MaxTx
    /\ LET t == Tx(Len(transactions) + 1, u, body.categoryId, body.amount, body.isIncome)
       IN  IF u = NoUser
           THEN /\ response' = PostResponse(u, 401, FALSE, NoTx, <<>>, FALSE, 0, failure)
                /\ UNCHANGED transactions
           ELSE IF failure = "create"
           THEN /\ response' = PostResponse(u, 500, FALSE, NoTx, <<>>, FALSE, 0, failure)
                /\ UNCHANGED transactions
           ELSE /\ transactions' = Append(transactions, t)
                /\ response' = [route |-> "in flight", user |-> u, transaction |-> t]
    /\ UNCHANGED <<routeTable, hasEmail, apiKeySet, adminKey, uploads,
                   budgets, categories, bills, entities, now, mailLog>>

\* the rest of the handler, undoing the store when the alert check or the
\* history read fails
EvaluateStepRollsBack(failure, providerOk) ==
    /\ InFlight
    /\ response' = PostResponse(response.user, 500, FALSE, NoTx, <<>>, FALSE, 0,
                                failure)
    /\ transactions' = IF failure = "none" THEN transactions
                        ELSE SubSeq(transactions, 1, Len(transactions) - 1)
    /\ UNCHANGED <<routeTable, hasEmail, apiKeySet, adminKey, uploads,
                   budgets, categories, bills, entities, now, mailLog>>

\* the rest of the handler: the history read, checkBudgetAlerts, the emails
\* and the answer
EvaluateStep(failure, providerOk) ==
    /\ InFlight
    /\ LET u == response.user
           t == response.transaction
           evaluates == t.categoryId # NoCategory /\ ~t.isIncome
       IN  IF ~evaluates
           THEN /\ response' = PostResponse(u, 201, TRUE, t, <<>>, FALSE, 0, failure)
                /\ UNCHANGED mailLog
           ELSE IF failure = "read"
           THEN /\ response' = PostResponse(u, 500, TRUE, t, <<>>, FALSE, 0, failure)
                /\ UNCHANGED mailLog
           ELSE LET alerts == IF failure = "check" THEN NullAlerts
                              ELSE checkBudgetAlerts(Storage, t)
                    n == NotifyLoop(routeTable, alerts, u, providerOk)
                IN  /\ mailLog' = mailLog \o n.sent
                    /\ response' =
                         IF n.threw
                         THEN PostResponse(u, 201, TRUE, t, <<>>, TRUE, n.calls, failure)
                         ELSE PostResponse(u, 201, TRUE, t, alerts, TRUE, n.calls, failure)
    /\ UNCHANGED <<routeTable, hasEmail, apiKeySet, adminKey, uploads,
                   transactions, budgets, categories, bills, entities, now>>

\* the process stops after the store and before the evaluation: the request
\* is never answered, the database keeps what was written
Crash ==
    /\ InFlight
    /\ response' = [route |-> "crashed", user |-> response.user,
                    transaction |-> response.transaction]
    /\ UNCHANGED <<routeTable, hasEmail, apiKeySet, adminKey, uploads,
                   transactions, budgets, categories, bills, entities, now,
                   mailLog>>

\* PostBudget between the two steps of a create would overwrite the request
\* in flight; the budgets are created first
BudgetStep(u, c, amount) ==
    /\ ~InFlight
    /\ PostBudget(u, c, amount)

StepEnvironments ==
    {[failure |-> "none", providerOk |-> ok] : ok \in BOOLEAN}
    \cup {[failure |-> f, providerOk |-> TRUE] : f \in {"read", "check"}}

NextSteps ==
    \/ \E u \in Users \cup {NoUser}, c \in BudgetCategories, a \in BudgetAmounts :
          BudgetStep(u, c, a)
    \/ \E u \in Users \cup {NoUser}, body \in TxBodies, f \in {"none", "create"} :
          CreateStep(u, body, f)
    \/ \E env \in StepEnvironments : EvaluateStep(env.failure, env.providerOk)
    \/ Crash

SpecSteps == Init /\ [][NextSteps]_vars

-----------------------------------------------------------------------------
(* SpecAgg: the Category Spend Aggregator applied to every bounded list    *)
(* of stored transactions.                                                 *)

MaxAggTx == 2
AggAmounts == {1, 2}

AggTxBodies ==
    [userId : Users, categoryId : CategoryIds \cup {NoCategory},
     amount : AggAmounts, isIncome : BOOLEAN]

TxsFrom(n, f) ==
    [i \in 1..n |-> Tx(i, f[i].userId, f[i].categoryId, f[i].amount, f[i].isIncome)]

InitAgg ==
    /\ routeTable = "part_000"
    /\ hasEmail = [u \in Users |-> TRUE]
    /\ apiKeySet = TRUE
    /\ adminKey = NoKey
    /\ uploads = {}
    /\ \E n \in 0..MaxAggTx : \E f \in [1..n -> AggTxBodies] :
          transactions = TxsFrom(n, f)
    /\ budgets = <<>>
    /\ categories = SeedCategories
    /\ bills = <<>>
    /\ entities = <<>>
    /\ now = 0
    /\ response = NoResponse
    /\ mailLog = <<>>

NextAgg == \E u \in Users \cup {NoUser} : GetBudgetSpending(u)

SpecAgg == InitAgg /\ [][NextAgg]_vars

-----------------------------------------------------------------------------
(* SpecAlert: the Budget Alert Evaluator applied to one budget of user 1   *)
(* and every bounded list of that user's transactions.                     *)

MaxAlertTx == 2
AlertTxAmounts == {0, 1, 5, 23, 79, 100}
AlertBudgetAmounts == {0, 40, 100}
AlertThresholds == {58, 80}

AlertTxBodies ==
    [userId : {1}, categoryId : {NoCategory, 1},
     amount : AlertTxAmounts, isIncome : BOOLEAN]

InitAlert ==
    /\ routeTable = "part_000"
    /\ hasEmail = [u \in Users |-> TRUE]
    /\ apiKeySet = TRUE
    /\ adminKey = NoKey
    /\ uploads = {}
    /\ \E n \in 0..MaxAlertTx : \E f \in [1..n -> AlertTxBodies] :
          transactions = TxsFrom(n, f)
    /\ \E a \in AlertBudgetAmounts, th \in AlertThresholds :
          budgets = <<Budget(1, 1, 1, a, th)>>
    /\ categories = SeedCategories
    /\ bills = <<>>
    /\ entities = <<>>
    /\ now = 0
    /\ response = NoResponse
    /\ mailLog = <<>>

NextAlert ==
    \/ \E u \in Users \cup {NoUser} : GetBudgetAlerts(u)
    \/ \E i \in 1..MaxAlertTx + 1 : CheckBudgetAlerts(i)

SpecAlert == InitAlert /\ [][NextAlert]_vars

-----------------------------------------------------------------------------
(* SpecHistory: the alert evaluation of a user with a long history: up to  *)
(* MaxHistory expenses of one amount in the budgeted category.             *)

MaxHistory == 52
HistoryAmounts == {1, 2}
HistoryBudgetAmounts == {40, 100}

InitHistory ==
    /\ routeTable = "part_000"
    /\ hasEmail = [u \in Users |-> TRUE]
    /\ apiKeySet = TRUE
    /\ adminKey = NoKey
    /\ uploads = {}
    /\ \E n \in 0..MaxHistory, a \in HistoryAmounts :
          transactions = [i \in 1..n |-> Tx(i, 1, 1, a, FALSE)]
    /\ \E a \in HistoryBudgetAmounts :
          budgets = <<Budget(1, 1, 1, a, DefaultAlertThreshold)>>
    /\ categories = SeedCategories
    /\ bills = <<>>
    /\ entities = <<>>
    /\ now = 0
    /\ response = NoResponse
    /\ mailLog = <<>>

NextHistory ==
    \/ \E u \in Users \cup {NoUser} : GetBudgetAlerts(u)
    \/ \E i \in 1..MaxHistory : CheckBudgetAlerts(i)

SpecHistory == InitHistory /\ [][NextHistory]_vars

-----------------------------------------------------------------------------
(* SpecList: the Budget Alert Evaluator applied to every bounded list of   *)
(* budgets of the two users and every bounded list of transactions.        *)

MaxListBudgets == 2
MaxListTx == 2
ListBudgetAmounts == {0, 100}
ListTxAmounts == {90, 150}

ListBudgetBodies ==
    [userId : Users, categoryId : CategoryIds, amount : ListBudgetAmounts]

ListTxBodies ==
    [userId : {1}, categoryId : CategoryIds, amount : ListTxAmounts,
     isIncome : {FALSE}]

BudgetsFrom(n, f) ==
    [i \in 1..n |-> Budget(i, f[i].userId, f[i].categoryId, f[i].amount,
                           DefaultAlertThreshold)]

InitList ==
    /\ routeTable = "part_000"
    /\ hasEmail = [u \in Users |-> TRUE]
    /\ apiKeySet = TRUE
    /\ adminKey = NoKey
    /\ uploads = {}
    /\ \E n \in 0..MaxListTx : \E f \in [1..n -> ListTxBodies] :
          transactions = TxsFrom(n, f)
    /\ \E n \in 0..MaxListBudgets : \E f \in [1..n -> ListBudgetBodies] :
          budgets = BudgetsFrom(n, f)
    /\ categories = SeedCategories
    /\ bills = <<>>
    /\ entities = <<>>
    /\ now = 0
    /\ response = NoResponse
    /\ mailLog = <<>>

NextList == \E u \in Users \cup {NoUser} : GetBudgetAlerts(u)

SpecList == InitList /\ [][NextList]_vars

-----------------------------------------------------------------------------
(* SpecEvaluators: the two alert evaluators side by side, over every       *)
(* bounded list of budgets of user 1 (BudgetSchema puts no unique index on  *)
(* userId and categoryId, and POST /api/budgets stores whatever it is       *)
(* given, so a category may have several budgets) and every bounded list    *)
(* of that user's expenses.                                                 *)

EvaluatorBudgetAmounts == {100, 200}
EvaluatorTxAmounts == {90, 150}

EvaluatorBudgetBodies ==
    [userId : {1}, categoryId : CategoryIds, amount : EvaluatorBudgetAmounts]

EvaluatorTxBodies ==
    [userId : {1}, categoryId : CategoryIds, amount : EvaluatorTxAmounts,
     isIncome : {FALSE}]

InitEvaluators ==
    /\ routeTable = "mongo-routes"
    /\ hasEmail = [u \in Users |-> TRUE]
    /\ apiKeySet = TRUE
    /\ adminKey = NoKey
    /\ uploads = {}
    /\ \E n \in 0..MaxListTx : \E f \in [1..n -> EvaluatorTxBodies] :
          transactions = TxsFrom(n, f)
    /\ \E n \in 0..MaxListBudgets : \E f \in [1..n -> EvaluatorBudgetBodies] :
          budgets = BudgetsFrom(n, f)
    /\ categories = SeedCategories
    /\ bills = <<>>
    /\ entities = <<>>
    /\ now = 0
    /\ response = NoResponse
    /\ mailLog = <<>>

NextEvaluators ==
    \/ \E u \in Users : GetBudgetAlerts(u)
    \/ \E i \in 1..MaxListTx : CheckBudgetAlerts(i)

SpecEvaluators == InitEvaluators /\ [][NextEvaluators]_vars

-----------------------------------------------------------------------------
(* SpecMail: the notification senders called directly, with and without an *)
(* API key, against a provider that accepts or rejects each message.       *)

MaxMail == 3
MailAmounts == {100, 150}

\* sendBillReminderEmail(params): the template reads fields the schema
\* requires, then `return await sendEmail(...)`.
sendBillReminderEmail(to, providerOk) == sendEmail(to, providerOk)

DispatchResponse(sender, to, providerOk, r) ==
    [route |-> "dispatch", sender |-> sender, to |-> to,
     providerOk |-> providerOk, threw |-> r.threw, result |-> r.result]

\* what a call leaves behind: the messages handed to the provider and the
\* outcome the caller observes
Dispatched(sender, to, providerOk, r) ==
    /\ mailLog' = mailLog \o r.sent
    /\ response' = DispatchResponse(sender, to, providerOk, r)

SendEmail(to, providerOk) ==
    /\ Len(mailLog) < MaxMail
    /\ Dispatched("sendEmail", to, providerOk, sendEmail(to, providerOk))
    /\ UNCHANGED <<routeTable, hasEmail, apiKeySet, adminKey, uploads,
                   transactions, budgets, categories, bills, entities, now>>

\* email.ts sendBudgetAlertEmail called with its seven positional arguments
EmailSendBudgetAlertEmail(to, budgetAmount, spentAmount, providerOk) ==
    /\ Len(mailLog) < MaxMail
    /\ Dispatched("email.sendBudgetAlertEmail", to, providerOk,
                  emailSendBudgetAlertEmail(to, JsNum(budgetAmount),
                                            JsNum(spentAmount), providerOk))
    /\ UNCHANGED <<routeTable, hasEmail, apiKeySet, adminKey, uploads,
                   transactions, budgets, categories, bills, entities, now>>

\* budget-alerts.ts sendBudgetAlertEmail called with its params object
BudgetAlertsSendBudgetAlertEmail(to, budgetAmount, spentAmount, providerOk) ==
    /\ Len(mailLog) < MaxMail
    /\ Dispatched("budget-alerts.sendBudgetAlertEmail", to, providerOk,
                  budgetAlertsSendBudgetAlertEmail(
                      [to |-> to, budgetAmount |-> JsNum(budgetAmount),
                       spentAmount |-> JsNum(spentAmount)], providerOk))
    /\ UNCHANGED <<routeTable, hasEmail, apiKeySet, adminKey, uploads,
                   transactions, budgets, categories, bills, entities, now>>

SendBillReminderEmail(to, providerOk) ==
    /\ Len(mailLog) < MaxMail
    /\ Dispatched("sendBillReminderEmail", to, providerOk,
                  sendBillReminderEmail(to, providerOk))
    /\ UNCHANGED <<routeTable, hasEmail, apiKeySet, adminKey, uploads,
                   transactions, budgets, categories, bills, entities, now>>

InitMail ==
    /\ routeTable = "mongo-routes"
    /\ hasEmail = [u \in Users |-> TRUE]
    /\ apiKeySet \in BOOLEAN
    /\ adminKey = NoKey
    /\ uploads = {}
    /\ transactions = <<>>
    /\ budgets = <<>>
    /\ categories = SeedCategories
    /\ bills = <<>>
    /\ entities = <<>>
    /\ now = 0
    /\ response = NoResponse
    /\ mailLog = <<>>

NextMail ==
    \/ \E to \in Users, ok \in BOOLEAN : SendEmail(to, ok)
    \/ \E to \in Users, b \in MailAmounts, sp \in MailAmounts, ok \in BOOLEAN :
          EmailSendBudgetAlertEmail(to, b, sp, ok)
    \/ \E to \in Users, b \in MailAmounts, sp \in MailAmounts, ok \in BOOLEAN :
          BudgetAlertsSendBudgetAlertEmail(to, b, sp, ok)
    \/ \E to \in Users, ok \in BOOLEAN : SendBillReminderEmail(to, ok)

SpecMail == InitMail /\ [][NextMail]_vars

-----------------------------------------------------------------------------
(* SpecBills: bills and the reminder check.  Time is counted in ticks of   *)
(* half a day, so that instants within a day can be told apart.            *)

TicksPerDay == 2
UpcomingDays == 30
MaxBills == 1
MaxNow == 2
DueDates == {0, 2, 4, 62}
ReminderDays == {0, 1, 45}

Bill(id, userId, dueDate, isPaid, reminderDays) ==
    [id |-> id, userId |-> userId, dueDate |-> dueDate, isPaid |-> isPaid,
     reminderDays |-> reminderDays]

\* date-fns differenceInDays(later, earlier): full days, truncated toward zero
differenceInDays(later, earlier) ==
    IF later >= earlier
    THEN (later - earlier) \div TicksPerDay
    ELSE -((earlier - later) \div TicksPerDay)

\* orderBy(bills.dueDate): insertion into an ascending sequence
RECURSIVE InsertByDueDate(_, _)
InsertByDueDate(sorted, b) ==
    IF sorted = <<>> THEN <<b>>
    ELSE IF b.dueDate < Head(sorted).dueDate THEN <<b>> \o sorted
         ELSE <<Head(sorted)>> \o InsertByDueDate(Tail(sorted), b)

RECURSIVE OrderByDueDate(_)
OrderByDueDate(bs) ==
    IF bs = <<>> THEN <<>>
    ELSE InsertByDueDate(OrderByDueDate(SubSeq(bs, 1, Len(bs) - 1)), bs[Len(bs)])

\* the query of getUpcomingBills, without its lower bound on dueDate
getUpcomingBillsAlsoPast(userId, days) ==
    OrderByDueDate(
        SelectSeq(bills, LAMBDA b : /\ b.userId = userId
                                    /\ ~b.isPaid
                                    /\ b.dueDate <= now + days * TicksPerDay))

\* getUpcomingBills(userId, days): unpaid bills of the user with
\* today <= dueDate <= today + days, `today` being the current instant
getUpcomingBills(userId, days) ==
    OrderByDueDate(
        SelectSeq(bills, LAMBDA b : /\ b.userId = userId
                                    /\ ~b.isPaid
                                    /\ b.dueDate >= now
                                    /\ b.dueDate <= now + days * TicksPerDay))

\* the bills a matcher reminds of that does not ask for unpaid bills only
billsToRemindAlsoPaid(userId) ==
    IF ~hasEmail[userId] THEN <<>>
    ELSE SelectSeq(
           OrderByDueDate(
             SelectSeq(bills, LAMBDA b :
                 /\ b.userId = userId
                 /\ b.dueDate >= now
                 /\ b.dueDate <= now + UpcomingDays * TicksPerDay)),
           LAMBDA b : LET daysToDue == differenceInDays(b.dueDate, now)
                      IN  daysToDue <= b.reminderDays /\ daysToDue >= 0)

\* the bills checkBillReminders(storage, userId) sends a reminder for
billsToRemind(userId) ==
    IF ~hasEmail[userId] THEN <<>>
    ELSE SelectSeq(getUpcomingBills(userId, UpcomingDays),
                   LAMBDA b : LET daysToDue == differenceInDays(b.dueDate, now)
                              IN  daysToDue <= b.reminderDays /\ daysToDue >= 0)

\* the message of a bill reminder names the bill (billId)
BillMessages(sent, bill) ==
    [i \in 1..Len(sent) |->
        [to |-> sent[i].to, accepted |-> sent[i].accepted, billId |-> bill.id]]

\* whether the log holds a reminder of the bill
Reminded(log, bill) ==
    \E i \in 1..Len(log) :
        "billId" \in DOMAIN log[i] /\ log[i].billId = bill.id

\* the loop of a matcher that remembers the reminders it has sent and
\* sends none twice
RemindLoopOnce(due, to, providerOk) ==
    LET fresh == SelectSeq(due, LAMBDA b : ~Reminded(mailLog, b))
    IN  IF fresh = <<>> THEN <<>>
        ELSE BillMessages(sendBillReminderEmail(to, providerOk).sent, Head(fresh))

\* the loop of checkBillReminders: the messages its sends hand to the provider
RECURSIVE RemindLoop(_, _, _)
RemindLoop(due, to, providerOk) ==
    IF due = <<>> THEN <<>>
    ELSE BillMessages(sendBillReminderEmail(to, providerOk).sent, Head(due))
         \o RemindLoop(Tail(due), to, providerOk)

\* POST /api/bills: the body is stored as sent, with the requester as owner.
PostBill(u, body) ==
    /\ Len(bills) < MaxBills
    /\ IF u = NoUser
       THEN /\ response' = [route |-> "POST /api/bills", user |-> u, status |-> 401]
            /\ UNCHANGED bills
       ELSE LET b == Bill(Len(bills) + 1, u, body.dueDate, body.isPaid,
                          body.reminderDays)
            IN  /\ bills' = Append(bills, b)
                /\ response' = [route |-> "POST /api/bills", user |-> u,
                                status |-> 201, body |-> b]
    /\ UNCHANGED <<routeTable, hasEmail, apiKeySet, adminKey, uploads,
                   transactions, budgets, categories, entities, now, mailLog>>

\* storage.getBillById(id): the document, or null
getBillById(id) == SelectSeq(bills, LAMBDA b : b.id = id)

\* PATCH /api/bills/:id with the body {isPaid}
PatchBill(u, id, isPaid) ==
    /\ LET found == getBillById(id)
           status == IF found = <<>> THEN 404
                     ELSE IF u = NoUser \/ found[1].userId # u THEN 403
                     ELSE 200
       IN  /\ response' = [route |-> "PATCH /api/bills/:id", user |-> u, id |-> id,
                           status |-> status]
           /\ bills' = IF status = 200
                        THEN [i \in 1..Len(bills) |->
                                IF bills[i].id = id
                                THEN [bills[i] EXCEPT !.isPaid = isPaid]
                                ELSE bills[i]]
                        ELSE bills
    /\ UNCHANGED <<routeTable, hasEmail, apiKeySet, adminKey, uploads,
                   transactions, budgets, categories, entities, now, mailLog>>

\* POST /api/bill-reminders/check: one sendBillReminderEmail per bill to remind.
CheckBillReminders(u, providerOk) ==
    /\ Len(mailLog) < MaxMail
    /\ IF u = NoUser
       THEN /\ response' = [route |-> "POST /api/bill-reminders/check", user |-> u,
                            status |-> 401]
            /\ UNCHANGED mailLog
       ELSE LET due == billsToRemind(u)
            IN  /\ mailLog' = mailLog \o RemindLoop(due, u, providerOk)
                /\ response' = [route |-> "POST /api/bill-reminders/check",
                                user |-> u, status |-> 200, at |-> now,
                                reminded |-> [i \in 1..Len(due) |-> due[i].id]]
    /\ UNCHANGED <<routeTable, hasEmail, apiKeySet, adminKey, uploads,
                   transactions, budgets, categories, bills, entities, now>>

\* the clock advances by half a day
Tick ==
    /\ now < MaxNow
    /\ now' = now + 1
    /\ UNCHANGED <<routeTable, hasEmail, apiKeySet, adminKey, uploads,
                   transactions, budgets, categories, bills, entities,
                   response, mailLog>>

BillBodies == [dueDate : DueDates, isPaid : BOOLEAN, reminderDays : ReminderDays]

InitBills ==
    /\ routeTable = "part_000"
    /\ hasEmail = UserHasEmail
    /\ apiKeySet = TRUE
    /\ adminKey = NoKey
    /\ uploads = {}
    /\ transactions = <<>>
    /\ budgets = <<>>
    /\ categories = SeedCategories
    /\ bills = <<>>
    /\ entities = <<>>
    /\ now = 0
    /\ response = NoResponse
    /\ mailLog = <<>>

NextBills ==
    \/ \E u \in Users \cup {NoUser}, body \in BillBodies : PostBill(u, body)
    \/ \E u \in Users \cup {NoUser}, id \in 1..MaxBills, isPaid \in BOOLEAN :
          PatchBill(u, id, isPaid)
    \/ \E u \in Users \cup {NoUser}, ok \in BOOLEAN : CheckBillReminders(u, ok)
    \/ Tick

SpecBills == InitBills /\ [][NextBills]_vars

-----------------------------------------------------------------------------
(* SpecAdmin: POST /api/admin/bill-reminders/check of part_000 and the run  *)
(* over all users it starts.  The storage may answer a lookup with null or  *)
(* reject it: fate[u] tells what the lookups made for user u do, listed     *)
(* whether getAllUsers resolves.                                            *)

MaxAdminBills == 2
AdminKeys == {1, 2}
Fates == {"found", "missing", "fails"}

\* storage.getAllUsers(): every user, in stored order
getAllUsers == <<1, 2>>

\* checkBillReminders(storage, userId) with the storage behaving as fate says:
\* a null user returns early, a rejected lookup is caught and logged
checkBillReminders(userId, fate, providerOk) ==
    IF fate # "found" THEN <<>>
    ELSE RemindLoop(billsToRemind(userId), userId, providerOk)

\* a loop over the users that a failed check would leave
RECURSIVE UsersLoopStopsAtFailure(_, _, _)
UsersLoopStopsAtFailure(users, fate, providerOk) ==
    IF users = <<>> \/ fate[Head(users)] # "found" THEN <<>>
    ELSE checkBillReminders(Head(users), fate[Head(users)], providerOk)
         \o UsersLoopStopsAtFailure(Tail(users), fate, providerOk)

\* for (const user of users) await checkBillReminders(storage, user._id)
RECURSIVE UsersLoop(_, _, _)
UsersLoop(users, fate, providerOk) ==
    IF users = <<>> THEN <<>>
    ELSE checkBillReminders(Head(users), fate[Head(users)], providerOk)
         \o UsersLoop(Tail(users), fate, providerOk)

\* sendAllBillReminders(storage): the messages handed to the provider; a
\* rejected getAllUsers is caught and logged
sendAllBillReminders(listed, fate, providerOk) ==
    IF ~listed THEN <<>> ELSE UsersLoop(getAllUsers, fate, providerOk)

\* if (apiKey !== process.env.ADMIN_API_KEY) return 403
KeyRejected(apiKey) == apiKey # adminKey

AdminResponse(apiKey, status, listed, fate, sent) ==
    [route |-> "POST /api/admin/bill-reminders/check", apiKey |-> apiKey,
     status |-> status, listed |-> listed, fate |-> fate,
     reminded |-> [i \in 1..Len(sent) |-> sent[i].billId]]

\* POST /api/admin/bill-reminders/check with the body {apiKey}
AdminCheckBillReminders(apiKey, listed, fate, providerOk) ==
    /\ Len(mailLog) < MaxMail
    /\ IF KeyRejected(apiKey)
       THEN /\ response' = AdminResponse(apiKey, 403, listed, fate, <<>>)
            /\ UNCHANGED mailLog
       ELSE LET sent == sendAllBillReminders(listed, fate, providerOk)
            IN  /\ mailLog' = mailLog \o sent
                /\ response' = AdminResponse(apiKey, 200, listed, fate, sent)
    /\ UNCHANGED <<routeTable, hasEmail, apiKeySet, adminKey, uploads,
                   transactions, budgets, categories, bills, entities, now>>

AdminBillBodies ==
    [userId : Users, dueDate : {2, 62}, isPaid : BOOLEAN, reminderDays : {1}]

BillsFrom(n, f) ==
    [i \in 1..n |-> Bill(i, f[i].userId, f[i].dueDate, f[i].isPaid,
                         f[i].reminderDays)]

\* what the storage does during one run: every lookup answers, or the
\* lookups of one user do not
AdminFates ==
    {fate \in [Users -> Fates] : \E u \in Users : fate[u] = "found"}

InitAdmin ==
    /\ routeTable = "part_000"
    /\ hasEmail \in {UserHasEmail, [u \in Users |-> u = 2], [u \in Users |-> TRUE]}
    /\ apiKeySet = TRUE
    /\ adminKey \in {NoKey, 1}
    /\ uploads = {}
    /\ transactions = <<>>
    /\ budgets = <<>>
    /\ categories = SeedCategories
    /\ \E n \in 0..MaxAdminBills : \E f \in [1..n -> AdminBillBodies] :
          bills = BillsFrom(n, f)
    /\ entities = <<>>
    /\ now = 0
    /\ response = NoResponse
    /\ mailLog = <<>>

AllFound == [u \in Users |-> "found"]

\* the environments of a run: one thing goes wrong at a time
AdminRuns ==
    {[listed |-> TRUE, fate |-> fate, providerOk |-> TRUE] : fate \in AdminFates}
    \cup {[listed |-> FALSE, fate |-> AllFound, providerOk |-> TRUE],
          [listed |-> TRUE, fate |-> AllFound, providerOk |-> FALSE]}

NextAdmin ==
    \E apiKey \in AdminKeys \cup {NoKey}, run \in AdminRuns :
       AdminCheckBillReminders(apiKey, run.listed, run.fate, run.providerOk)

SpecAdmin == InitAdmin /\ [][NextAdmin]_vars

-----------------------------------------------------------------------------
(* SpecCrud: the per-id endpoints of the four route tables.  An entity is   *)
(* [kind, id, userId, val, deleted]; a deleted entity is no longer found.    *)
(* Every entity has an owner: CategorySchema requires userId, and the only  *)
(* createCategory call with `userId: null` sits in the second registration   *)
(* of POST /api/plaid/sync-transactions of part_000 / part_001, which the   *)
(* first registration of that path keeps from ever running.  The budgets,   *)
(* bills and goals handlers repeat the transactions handlers line by line.  *)

MaxEntities == 1
Kinds == {"categories", "accounts", "transactions"}
Vals == {1, 2}
NoEntity == [id |-> 0]

Entity(kind, id, userId, val) ==
    [kind |-> kind, id |-> id, userId |-> userId, val |-> val, deleted |-> FALSE]

\* storage.getXById(id): the document, or null
getById(kind, id) ==
    IF /\ id \in 1..Len(entities)
       /\ entities[id].kind = kind
       /\ ~entities[id].deleted
    THEN entities[id]
    ELSE NoEntity

MongoTables == {"mongo-routes", "part_000", "part_001"}

\* the handlers registered behind the requireAuth middleware
UsesRequireAuth(table, kind) ==
    \/ table = "routes"
    \/ table \in {"part_000", "part_001"} /\ kind = "categories"

\* the per-id handlers without their ownership test
ForbiddenNever(table, kind, entity, u) == FALSE

\* the ownership test of the per-id handlers: TRUE answers 403
Forbidden(table, kind, entity, u) ==
    IF table \in {"part_000", "part_001"} /\ kind = "categories"
    THEN entity.userId # NoUser /\ entity.userId # u
    ELSE u = NoUser \/ entity.userId # u

\* what every per-id handler does before it acts: 401 from requireAuth,
\* 404 for a missing document, 403 from the ownership test, else 0 (go on)
Precheck(table, kind, id, u) ==
    IF UsesRequireAuth(table, kind) /\ u = NoUser THEN 401
    ELSE IF getById(kind, id) = NoEntity THEN 404
    ELSE IF Forbidden(table, kind, getById(kind, id), u) THEN 403
    ELSE 0

CrudResponse(method, kind, id, u, status) ==
    [route |-> "per-id", method |-> method, kind |-> kind, id |-> id,
     user |-> u, status |-> status, before |-> getById(kind, id)]

CrudUnchanged ==
    UNCHANGED <<routeTable, hasEmail, apiKeySet, adminKey, uploads,
                transactions, budgets, categories, bills, now, mailLog>>

\* POST /api/<kind>: the requester becomes the owner
CreateEntity(u, kind, val) ==
    /\ Len(entities) < MaxEntities
    /\ IF u = NoUser
       THEN /\ response' = [route |-> "create", kind |-> kind, user |-> u,
                            status |-> 401]
            /\ UNCHANGED entities
       ELSE /\ entities' = Append(entities, Entity(kind, Len(entities) + 1, u, val))
            /\ response' = [route |-> "create", kind |-> kind, user |-> u,
                            status |-> 201]
    /\ CrudUnchanged

\* GET /api/<kind>/:id (the Mongo tables only)
GetById(u, kind, id) ==
    /\ routeTable \in MongoTables
    /\ LET pre == Precheck(routeTable, kind, id, u)
       IN  response' = CrudResponse("GET", kind, id, u, IF pre = 0 THEN 200 ELSE pre)
    /\ UNCHANGED entities
    /\ CrudUnchanged

\* PATCH /api/<kind>/:id (PUT in routes.ts, behind validateBody except for
\* accounts).  body.userId = NoUser stands for a body without that field;
\* valid tells whether the body passes validateBody, where a handler has it.
UpdateById(u, kind, id, body, valid) ==
    /\ valid \/ (routeTable = "routes" /\ kind # "accounts")
    /\ LET auth == UsesRequireAuth(routeTable, kind) /\ u = NoUser
           validates == routeTable = "routes" /\ kind # "accounts"
           pre == IF auth THEN 401
                  ELSE IF validates /\ ~valid THEN 400
                  ELSE Precheck(routeTable, kind, id, u)
       IN  /\ response' = CrudResponse(IF routeTable = "routes" THEN "PUT" ELSE "PATCH",
                                       kind, id, u, IF pre = 0 THEN 200 ELSE pre)
           /\ entities' =
                IF pre = 0
                THEN [entities EXCEPT ![id] =
                        [@ EXCEPT !.val = body.val,
                                  !.userId = IF body.userId = NoUser THEN @
                                             ELSE body.userId]]
                ELSE entities
    /\ CrudUnchanged

\* DELETE /api/<kind>/:id
DeleteById(u, kind, id) ==
    /\ LET pre == Precheck(routeTable, kind, id, u)
       IN  /\ response' = CrudResponse("DELETE", kind, id, u,
                                       IF pre = 0 THEN 204 ELSE pre)
           /\ entities' = IF pre = 0
                          THEN [entities EXCEPT ![id].deleted = TRUE]
                          ELSE entities
    /\ CrudUnchanged

UpdateBodies == [val : Vals, userId : Users \cup {NoUser}]

InitCrud ==
    /\ routeTable \in RouteTables
    /\ hasEmail = UserHasEmail
    /\ apiKeySet = TRUE
    /\ adminKey = NoKey
    /\ uploads = {}
    /\ transactions = <<>>
    /\ budgets = <<>>
    /\ categories = <<>>
    /\ bills = <<>>
    /\ entities = <<>>
    /\ now = 0
    /\ response = NoResponse
    /\ mailLog = <<>>

NextCrud ==
    \/ \E u \in Users \cup {NoUser}, kind \in Kinds, val \in Vals :
          CreateEntity(u, kind, val)
    \/ \E u \in Users \cup {NoUser}, kind \in Kinds, id \in 1..(MaxEntities + 1) :
          GetById(u, kind, id)
    \/ \E u \in Users \cup {NoUser}, kind \in Kinds, id \in 1..(MaxEntities + 1),
          body \in UpdateBodies, valid \in BOOLEAN :
          UpdateById(u, kind, id, body, valid)
    \/ \E u \in Users \cup {NoUser}, kind \in Kinds, id \in 1..(MaxEntities + 1) :
          DeleteById(u, kind, id)

SpecCrud == InitCrud /\ [][NextCrud]_vars

-----------------------------------------------------------------------------
(* SpecLedger: every way a transaction gets stored or rewritten in          *)
(* part_000 / part_001: manual creation, PATCH, the Plaid initial import    *)
(* and the Plaid sync.  Plaid reports money leaving the account as a        *)
(* positive amount and money entering it as a negative amount.              *)

MaxBatch == 2
LedgerAmounts == {-25, 40}
PlaidAmounts == {-25, 40}

\* a Plaid transaction: its amount and the id of the first category of the
\* user whose name contains the Plaid primary category (NoCategory: none)
PlaidTxs == [amount : PlaidAmounts, category : {NoCategory, 1}]

RECURSIVE SeqsUpTo(_, _)
SeqsUpTo(S, n) ==
    IF n = 0 THEN {<<>>}
    ELSE SeqsUpTo(S, n - 1)
         \cup {Append(q, x) : q \in {r \in SeqsUpTo(S, n - 1) : Len(r) = n - 1}, x \in S}

PlaidBatches == SeqsUpTo(PlaidTxs, MaxBatch) \ {<<>>}

\* the category search of the import loops
MatchCategory(u, p) ==
    IF \E i \in 1..Len(getCategoriesByUserId(u)) :
            getCategoriesByUserId(u)[i].id = p.category
    THEN p.category
    ELSE NoCategory

\* storage.createTransaction({amount: transaction.amount,
\*                            isIncome: transaction.amount < 0, ...})
ImportedTx(id, u, p) == Tx(id, u, MatchCategory(u, p), p.amount, p.amount < 0)

RECURSIVE ImportLoop(_, _, _)
ImportLoop(txs, u, batch) ==
    IF batch = <<>> THEN txs
    ELSE ImportLoop(Append(txs, ImportedTx(Len(txs) + 1, u, Head(batch))),
                    u, Tail(batch))

LedgerUnchanged ==
    UNCHANGED <<routeTable, hasEmail, apiKeySet, adminKey, uploads, budgets,
                categories, bills, now, mailLog>>

\* POST /api/plaid/set-access-token (first registration): one linked account
\* is created, then every Plaid transaction is stored.
PlaidSetAccessToken(u, batch) ==
    /\ routeTable \in {"part_000", "part_001"}
    /\ Len(entities) < MaxEntities
    /\ Len(transactions) + Len(batch) <= MaxTx
    /\ IF u = NoUser
       THEN /\ response' = [route |-> "POST /api/plaid/set-access-token",
                            user |-> u, status |-> 401]
            /\ UNCHANGED <<transactions, entities>>
       ELSE /\ entities' = Append(entities,
                                  Entity("accounts", Len(entities) + 1, u, 1))
            /\ transactions' = ImportLoop(transactions, u, batch)
            /\ response' = [route |-> "POST /api/plaid/set-access-token",
                            user |-> u, status |-> 200]
    /\ LedgerUnchanged

\* the duplicate test of the sync: a stored transaction of the requester
\* (as getTransactionsByUserId returned it before the loop) with the same
\* amount; sameNameAndDay tells whether name and day agree as well
AlreadyStored(existing, p, sameNameAndDay) ==
    sameNameAndDay /\ \E i \in 1..Len(existing) : existing[i].amount = p.amount

\* POST /api/plaid/sync-transactions (first registration).  The handler
\* looks the account up and does not compare its owner with the requester.
PlaidSyncTransactions(u, accountId, batch, sameNameAndDay) ==
    /\ routeTable \in {"part_000", "part_001"}
    /\ Len(transactions) + Len(batch) <= MaxTx
    /\ UNCHANGED entities
    /\ IF u = NoUser
       THEN /\ response' = [route |-> "POST /api/plaid/sync-transactions",
                            user |-> u, status |-> 401]
            /\ UNCHANGED transactions
       ELSE IF getById("accounts", accountId) = NoEntity
       THEN /\ response' = [route |-> "POST /api/plaid/sync-transactions",
                            user |-> u, status |-> 404]
            /\ UNCHANGED transactions
       ELSE LET existing == getTransactionsByUserId(u)
                fresh == SelectSeq(batch,
                            LAMBDA p : ~AlreadyStored(existing, p, sameNameAndDay))
            IN  /\ transactions' = ImportLoop(transactions, u, fresh)
                /\ response' = [route |-> "POST /api/plaid/sync-transactions",
                                user |-> u, status |-> 200,
                                newTransactionsCount |-> Len(fresh)]
    /\ LedgerUnchanged

\* PATCH /api/transactions/:id: the fields of the body are written as sent.
PatchTransaction(u, id, body) ==
    /\ routeTable \in MongoTables
    /\ UNCHANGED entities
    /\ IF id \notin 1..Len(transactions)
       THEN /\ response' = [route |-> "PATCH /api/transactions/:id", user |-> u,
                            status |-> 404]
            /\ UNCHANGED transactions
       ELSE IF u = NoUser \/ transactions[id].userId # u
       THEN /\ response' = [route |-> "PATCH /api/transactions/:id", user |-> u,
                            status |-> 403]
            /\ UNCHANGED transactions
       ELSE /\ transactions' = [transactions EXCEPT ![id].amount = body.amount,
                                                   ![id].isIncome = body.isIncome]
            /\ response' = [route |-> "PATCH /api/transactions/:id", user |-> u,
                            status |-> 200]
    /\ LedgerUnchanged

LedgerBodies == [categoryId : {NoCategory, 1}, amount : LedgerAmounts,
                 isIncome : BOOLEAN]

LedgerPatches == [amount : LedgerAmounts, isIncome : BOOLEAN]

InitLedger ==
    /\ routeTable \in {"part_000", "part_001"}
    /\ hasEmail = UserHasEmail
    /\ apiKeySet = TRUE
    /\ adminKey = NoKey
    /\ uploads = {}
    /\ transactions = <<>>
    /\ budgets = <<>>
    /\ categories = SeedCategories
    /\ bills = <<>>
    /\ entities = <<>>
    /\ now = 0
    /\ response = NoResponse
    /\ mailLog = <<>>

NextLedger ==
    \/ \E u \in Users \cup {NoUser}, body \in LedgerBodies :
          PostTransaction(u, body, "none", TRUE)
    \/ \E u \in Users \cup {NoUser}, id \in 1..MaxTx, body \in LedgerPatches :
          PatchTransaction(u, id, body)
    \/ \E u \in Users \cup {NoUser}, batch \in PlaidBatches :
          PlaidSetAccessToken(u, batch)
    \/ \E u \in Users \cup {NoUser}, accountId \in 1..MaxEntities,
          batch \in PlaidBatches, same \in BOOLEAN :
          PlaidSyncTransactions(u, accountId, batch, same)

SpecLedger == InitLedger /\ [][NextLedger]_vars

-----------------------------------------------------------------------------
(* SpecSync: POST /api/plaid/sync-transactions (first registration, the one *)
(* Express runs) against an upstream list that only grows.  The upstream    *)
(* list of length n holds the transactions 1..n, transaction i named i and  *)
(* dated day i; user 1 has one linked account.  The handler reads the       *)
(* stored transactions once, with getTransactionsByUserId and its default   *)
(* limit, and stores every upstream transaction it does not find there.     *)

MaxUpstream == 52
NoAccount == 0

PlaidTx(i) == [name |-> i, day |-> i, amount |-> 1, category |-> 1]

\* getTransactions(accessToken), filtered to the account
Upstream(n) == [i \in 1..n |-> PlaidTx(i)]

\* existingTransactions.some(t => t.description === transaction.name &&
\*   same day && Math.abs(t.amount - transaction.amount) < 0.001)
Exists(existing, p) ==
    \E i \in 1..Len(existing) : /\ existing[i].description = p.name
                                /\ existing[i].date = p.day
                                /\ existing[i].amount = p.amount

\* the upstream transactions the loop stores, in upstream order; the list is
\* gone through half after half
RECURSIVE NotExisting(_, _)
NotExisting(existing, batch) ==
    IF Len(batch) = 0 THEN <<>>
    ELSE IF Len(batch) = 1
         THEN (IF Exists(existing, batch[1]) THEN <<>> ELSE <<batch[1]>>)
    ELSE LET half == Len(batch) \div 2
         IN  NotExisting(existing, SubSeq(batch, 1, half))
             \o NotExisting(existing, SubSeq(batch, half + 1, Len(batch)))

\* storage.createTransaction({description: transaction.name, date, amount,
\*                            userId, categoryId, isIncome: amount < 0, ...})
SyncedTx(id, u, p) ==
    [id |-> id, userId |-> u, categoryId |-> MatchCategory(u, p),
     amount |-> p.amount, isIncome |-> p.amount < 0,
     description |-> p.name, date |-> p.day]

\* const existingTransactions = await storage.getTransactionsByUserId(userId)
ExistingTransactions(u) == getTransactionsByUserId(u)

SyncResponse(u, accountId, n, status, count) ==
    [route |-> "POST /api/plaid/sync-transactions (accountId)", user |-> u,
     accountId |-> accountId, upstream |-> n, status |-> status,
     newTransactionsCount |-> count]

\* orderBy(desc(date)) is modelled on a store whose insertion order is the
\* date order; the runs are followed as long as it is
InDateOrder ==
    \A i \in 1..(Len(transactions) - 1) :
        transactions[i].date <= transactions[i + 1].date

\* One sync request; n is the length of the upstream list at that moment.
SyncTransactions(u, accountId, n) ==
    /\ InDateOrder
    /\ n >= response.upstream
    /\ IF u = NoUser
       THEN /\ response' = SyncResponse(u, accountId, response.upstream, 401, 0)
            /\ UNCHANGED transactions
       ELSE IF accountId = NoAccount
       THEN /\ response' = SyncResponse(u, accountId, response.upstream, 400, 0)
            /\ UNCHANGED transactions
       ELSE IF getById("accounts", accountId) = NoEntity
       THEN /\ response' = SyncResponse(u, accountId, response.upstream, 404, 0)
            /\ UNCHANGED transactions
       ELSE LET fresh == NotExisting(ExistingTransactions(u), Upstream(n))
            IN  /\ transactions' =
                     transactions
                     \o [i \in 1..Len(fresh) |->
                            SyncedTx(Len(transactions) + i, u, fresh[i])]
                /\ response' = SyncResponse(u, accountId, n, 200, Len(fresh))
    /\ UNCHANGED entities
    /\ LedgerUnchanged

InitSync ==
    /\ routeTable \in {"part_000", "part_001"}
    /\ hasEmail = UserHasEmail
    /\ apiKeySet = TRUE
    /\ adminKey = NoKey
    /\ uploads = {}
    /\ transactions = <<>>
    /\ budgets = <<>>
    /\ categories = SeedCategories
    /\ bills = <<>>
    /\ entities = <<Entity("accounts", 1, 1, 1)>>
    /\ now = 0
    /\ response = SyncResponse(NoUser, NoAccount, 0, 0, 0)
    /\ mailLog = <<>>

\* the lengths the upstream list is seen at: short ones, and the ones around
\* the number of transactions one read returns
UpstreamLengths ==
    {n \in 0..MaxUpstream : n <= 3 \/ n >= MaxUpstream - 3}

NextSync ==
    \E u \in {NoUser, 1}, accountId \in {NoAccount, 1, 2}, n \in UpstreamLengths :
       SyncTransactions(u, accountId, n)

SpecSync == InitSync /\ [][NextSync]_vars


-----------------------------------------------------------------------------
(* SpecRouter: GET requests under /api/budgets dispatched by Express to the *)
(* first registered route whose pattern matches the path.                   *)

\* the segment after /api/budgets: none, a word, or a budget id
NoSegment == [word |-> "", id |-> 0]
WordSegment(w) == [word |-> w, id |-> 0]
IdSegment(n) == [word |-> ":id", id |-> n]

\* the GET routes under /api/budgets in registration order
BudgetGetRoutes(table) ==
    IF table = "part_000"
    THEN <<"/api/budgets", "/api/budgets/spending", "/api/budgets/alerts",
           "/api/budgets/:id">>
    ELSE IF table \in {"mongo-routes", "part_001"}
    THEN <<"/api/budgets", "/api/budgets/:id", "/api/budgets/spending",
           "/api/budgets/alerts">>
    ELSE <<"/api/budgets">>

\* path-to-regexp: a literal segment matches itself, :id matches any segment
Matches(pattern, seg) ==
    CASE pattern = "/api/budgets" -> seg = NoSegment
      [] pattern = "/api/budgets/spending" -> seg = WordSegment("spending")
      [] pattern = "/api/budgets/alerts" -> seg = WordSegment("alerts")
      [] pattern = "/api/budgets/:id" -> seg # NoSegment
      [] OTHER -> FALSE

\* the first registered route that matches, "none" when no route does
FirstMatch(routes, seg) ==
    IF \E i \in 1..Len(routes) : Matches(routes[i], seg)
    THEN routes[CHOOSE i \in 1..Len(routes) :
                    /\ Matches(routes[i], seg)
                    /\ \A j \in 1..(i - 1) : ~Matches(routes[j], seg)]
    ELSE "none"

\* what the GET /api/budgets handler answers
BudgetListResponse(u) ==
    IF u = NoUser
    THEN [route |-> "GET /api/budgets", user |-> u, status |-> 401]
    ELSE [route |-> "GET /api/budgets", user |-> u, status |-> 200,
          body |-> getBudgetsByUserId(u)]

\* what the GET /api/budgets/:id handler answers.  storage.getBudgetById of
\* a parameter that is no id either yields null or rejects (lookup says
\* which): 404, or the error handler's 500.
BudgetByIdResponse(u, seg, lookup) ==
    LET found == seg.word = ":id" /\ seg.id \in 1..Len(budgets)
        status == IF seg.word # ":id" /\ lookup = "throws" THEN 500
                  ELSE IF ~found THEN 404
                  ELSE IF u = NoUser \/ budgets[seg.id].userId # u THEN 403
                  ELSE 200
    IN  IF status = 200
        THEN [route |-> "GET /api/budgets/:id", user |-> u, status |-> 200,
              body |-> budgets[seg.id]]
        ELSE [route |-> "GET /api/budgets/:id", user |-> u, status |-> status]

\* a GET request for /api/budgets[/seg]
HttpGetBudgets(u, seg, lookup) ==
    /\ LET handler == FirstMatch(BudgetGetRoutes(routeTable), seg)
       IN  response' =
             [route |-> "GET", path |-> seg, user |-> u, handler |-> handler,
              answer |->
                 CASE handler = "/api/budgets" -> BudgetListResponse(u)
                   [] handler = "/api/budgets/spending" -> SpendingResponse(u)
                   [] handler = "/api/budgets/alerts" -> AlertsResponse(u)
                   [] handler = "/api/budgets/:id" ->
                          BudgetByIdResponse(u, seg, lookup)
                   [] OTHER -> [route |-> "none", user |-> u, status |-> 404]]
    /\ UNCHANGED <<routeTable, hasEmail, apiKeySet, adminKey, uploads,
                   transactions, budgets, categories, bills, entities, now,
                   mailLog>>

BudgetSegments ==
    {NoSegment, WordSegment("spending"), WordSegment("alerts")}
    \cup {IdSegment(n) : n \in 1..(MaxBudgets + 1)}

InitRouter ==
    /\ routeTable \in MongoTables
    /\ hasEmail = UserHasEmail
    /\ apiKeySet = TRUE
    /\ adminKey = NoKey
    /\ uploads = {}
    /\ transactions = <<>>
    /\ budgets = <<>>
    /\ categories = SeedCategories
    /\ bills = <<>>
    /\ entities = <<>>
    /\ now = 0
    /\ response = NoResponse
    /\ mailLog = <<>>

NextRouter ==
    \/ \E u \in Users \cup {NoUser}, c \in BudgetCategories, a \in BudgetAmounts :
          PostBudget(u, c, a)
    \/ \E u \in Users \cup {NoUser}, body \in TxBodies :
          PostTransaction(u, body, "none", TRUE)
    \/ \E u \in Users \cup {NoUser}, seg \in BudgetSegments,
          lookup \in {"null", "throws"} :
          HttpGetBudgets(u, seg, lookup)

SpecRouter == InitRouter /\ [][NextRouter]_vars

-----------------------------------------------------------------------------
(* Deleting a category.  storage.deleteCategory removes the category       *)
(* document and nothing else: the budgets and transactions that name the   *)
(* category keep their categoryId.                                         *)

\* storage.getCategoryById(id): the document, or null
getCategoryById(id) == SelectSeq(categories, LAMBDA c : c.id = id)

\* storage.deleteCategory(id)
deleteCategory(cats, id) == SelectSeq(cats, LAMBDA c : c.id # id)

\* DELETE /api/categories/:id
DeleteCategory(u, id) ==
    /\ LET found == getCategoryById(id)
           status ==
              IF u = NoUser /\ UsesRequireAuth(routeTable, "categories") THEN 401
              ELSE IF found = <<>> THEN 404
              ELSE IF u = NoUser \/ found[1].userId # u THEN 403
              ELSE 204
       IN  /\ response' = [route |-> "DELETE /api/categories/:id", user |-> u,
                           id |-> id, status |-> status]
           /\ categories' = IF status = 204 THEN deleteCategory(categories, id)
                             ELSE categories
    /\ UNCHANGED <<routeTable, hasEmail, apiKeySet, adminKey, uploads,
                   transactions, budgets, bills, entities, now, mailLog>>

NextCategory ==
    \/ \E u \in Users \cup {NoUser}, c \in BudgetCategories, a \in BudgetAmounts :
          PostBudget(u, c, a)
    \/ \E u \in Users \cup {NoUser}, body \in TxBodies :
          PostTransaction(u, body, "none", TRUE)
    \/ \E u \in Users \cup {NoUser}, id \in CategoryIds :
          DeleteCategory(u, id)
    \/ \E u \in Users \cup {NoUser}, seg \in BudgetSegments,
          lookup \in {"null", "throws"} :
          HttpGetBudgets(u, seg, lookup)

SpecCategory == InitRouter /\ [][NextCategory]_vars

-----------------------------------------------------------------------------
(* The AI feature endpoints.  The five /api/ai/... handlers are the same   *)
(* text in mongo-routes.ts, part_000 and part_001; part_000 registers      *)
(* three older endpoints after them.  routes.ts wraps no AI call in a      *)
(* try/catch of its own and hands every error to next(error), whose        *)
(* middleware is not part of these sources, so its answers are not         *)
(* modelled.  The provider functions live in ./openai: what they throw is  *)
(* taken from the specification's error taxonomy.                          *)

\* how a call of the AI provider ends
AiOutcomes == {"ok", "quota", "apiKey", "other"}

NotCalled == "not called"

\* aiError.message?.includes(word)
MessageIncludes(outcome, word) ==
    \/ outcome = "quota" /\ word = "quota"
    \/ outcome = "apiKey" /\ word = "API key"

AiAnswer(status, error) == [status |-> status, error |-> error]

\* the catch (aiError) block without its quota test
AiErrorAnswerNoQuotaTest(outcome) == AiAnswer(500, "AI_SERVICE_ERROR")

\* the catch (aiError) block of the /api/ai/... handlers
AiErrorAnswer(outcome) ==
    IF MessageIncludes(outcome, "quota")
    THEN AiAnswer(429, "QUOTA_EXCEEDED")
    ELSE AiAnswer(500, "AI_SERVICE_ERROR")

\* the catch (aiError) block of the older endpoints: a fallback body with
\* status 200 when the message names neither the API key nor the quota
LegacyErrorAnswer(outcome) ==
    IF MessageIncludes(outcome, "API key")
    THEN AiAnswer(402, "API_CONFIG_ERROR")
    ELSE IF MessageIncludes(outcome, "quota")
         THEN AiAnswer(402, "QUOTA_EXCEEDED")
         ELSE AiAnswer(200, "")

AiEndpoints ==
    {"/api/ai/analyze-receipt", "/api/ai/financial-advice",
     "/api/ai/predict-expenses", "/api/ai/saving-suggestions",
     "/api/ai/categorize-transaction"}

LegacyAiEndpoints ==
    {"/api/predict-expenses", "/api/saving-suggestions", "/api/financial-advice"}

AiRoutes(table) ==
    IF table = "part_000" THEN AiEndpoints \cup LegacyAiEndpoints ELSE AiEndpoints

\* transactions.filter(t => !t.isIncome) of the user; every stored
\* transaction is younger than the six months /api/predict-expenses looks back
ExpensesOf(u) ==
    SelectSeq(getTransactionsByUserId(u), LAMBDA t : ~t.isIncome)

\* Whether the handler gets as far as its provider call; otherwise the status
\* it answers with.  complete: the request carries what the handler asks
\* for (the uploaded file, the description, the topic).
AiPrecheck(endpoint, u, complete) ==
    IF u = NoUser THEN 401
    ELSE IF /\ endpoint \in {"/api/ai/analyze-receipt",
                             "/api/ai/categorize-transaction",
                             "/api/financial-advice"}
            /\ ~complete
         THEN 400
    ELSE IF /\ endpoint \in {"/api/predict-expenses", "/api/saving-suggestions"}
            /\ ExpensesOf(u) = <<>>
         THEN 200
    ELSE 0

AiResponse(endpoint, u, called, answer) ==
    [route |-> "AI", endpoint |-> endpoint, user |-> u, called |-> called,
     status |-> answer.status, error |-> answer.error]

\* insightData of POST /api/ai/financial-advice: { ..., isRead: false,
\* userId: req.user._id }, as stored
Insight(id, userId, isRead) ==
    [kind |-> "insights", id |-> id, userId |-> userId, isRead |-> isRead,
     deleted |-> FALSE]

\* a handler that would store the insight before it has the advice
StoresInsightBeforeAdvice(endpoint, pre, outcome) ==
    pre = 0 /\ endpoint = "/api/ai/financial-advice"

\* await storage.createAiInsight(insightData) comes after
\* await generateFinancialAdvice(...) in the same try block: it is reached
\* only when the provider call returned
StoresInsight(endpoint, pre, outcome) ==
    /\ pre = 0
    /\ endpoint = "/api/ai/financial-advice"
    /\ outcome = "ok"

\* One request to an AI endpoint.  /api/ai/financial-advice stores the advice
\* as an insight inside the same try block as the provider call.
AiRequest(endpoint, u, complete, outcome) ==
    /\ endpoint \in AiRoutes(routeTable)
    /\ LET pre == AiPrecheck(endpoint, u, complete)
           storesInsight == StoresInsight(endpoint, pre, outcome)
       IN  /\ storesInsight => Len(entities) < MaxEntities
           /\ response' =
                IF pre # 0 THEN AiResponse(endpoint, u, NotCalled, AiAnswer(pre, ""))
                ELSE IF outcome = "ok"
                     THEN AiResponse(endpoint, u, outcome, AiAnswer(200, ""))
                ELSE IF endpoint \in LegacyAiEndpoints
                     THEN AiResponse(endpoint, u, outcome, LegacyErrorAnswer(outcome))
                     ELSE AiResponse(endpoint, u, outcome, AiErrorAnswer(outcome))
           /\ entities' =
                IF storesInsight
                THEN Append(entities, Insight(Len(entities) + 1, u, FALSE))
                ELSE entities
    /\ UNCHANGED <<routeTable, hasEmail, apiKeySet, adminKey, uploads,
                   transactions, budgets, categories, bills, now, mailLog>>

InitAi ==
    /\ routeTable \in MongoTables
    /\ hasEmail = UserHasEmail
    /\ apiKeySet = TRUE
    /\ adminKey = NoKey
    /\ uploads = {}
    /\ transactions = <<>>
    /\ budgets = <<>>
    /\ categories = SeedCategories
    /\ bills = <<>>
    /\ entities = <<>>
    /\ now = 0
    /\ response = NoResponse
    /\ mailLog = <<>>

\* the stored history the older endpoints look at: an expense and an income
AiTxBodies == {b \in TxBodies : b.categoryId = 1 /\ b.amount = 150}

\* an incomplete request never reaches the provider, so the provider's
\* outcome is only drawn for complete ones
AiRequests ==
    {[complete |-> FALSE, outcome |-> "ok"]}
    \cup {[complete |-> TRUE, outcome |-> o] : o \in AiOutcomes}

NextAi ==
    \/ \E u \in Users \cup {NoUser}, body \in AiTxBodies :
          PostTransaction(u, body, "none", TRUE)
    \/ \E endpoint \in AiEndpoints \cup LegacyAiEndpoints, u \in Users \cup {NoUser},
          req \in AiRequests :
          AiRequest(endpoint, u, req.complete, req.outcome)

SpecAi == InitAi /\ [][NextAi]_vars

-----------------------------------------------------------------------------
(* SpecInsights: marking a stored insight as read.  mongo-routes.ts and    *)
(* the two unnamed route files register POST /api/insights/mark-read/:id,   *)
(* routes.ts registers POST /api/insights/:id/read.                         *)

MaxInsights == 2

\* storage.markAiInsightAsRead(id): set({ isRead: true }).where(id)
markAiInsightAsRead(id) ==
    [i \in 1..Len(entities) |->
        IF i = id /\ entities[i].kind = "insights"
        THEN [entities[i] EXCEPT !.isRead = TRUE]
        ELSE entities[i]]

\* what the handler does before it marks: 401, 404, 403, or 0 (go on).
\* routes.ts has requireAuth and no read of the insight before the update;
\* its 404 is for an update that matched no row.
MarkReadPrecheck(table, id, u) ==
    IF u = NoUser THEN 401
    ELSE IF getById("insights", id) = NoEntity THEN 404
    ELSE IF table = "routes" THEN 0
    ELSE IF getById("insights", id).userId # u THEN 403
    ELSE 0

MarkReadResponse(id, u, status) ==
    [route |-> "mark-read", id |-> id, user |-> u, status |-> status,
     before |-> getById("insights", id)]

\* One mark-as-read request.
MarkInsightRead(u, id) ==
    /\ LET pre == MarkReadPrecheck(routeTable, id, u)
       IN  /\ response' = MarkReadResponse(id, u, IF pre = 0 THEN 200 ELSE pre)
           /\ entities' = IF pre = 0 THEN markAiInsightAsRead(id) ELSE entities
    /\ CrudUnchanged

InsightsFrom(n, f) == [i \in 1..n |-> Insight(i, f[i].userId, f[i].isRead)]

InitInsights ==
    /\ routeTable \in RouteTables
    /\ hasEmail = UserHasEmail
    /\ apiKeySet = TRUE
    /\ adminKey = NoKey
    /\ uploads = {}
    /\ transactions = <<>>
    /\ budgets = <<>>
    /\ categories = SeedCategories
    /\ bills = <<>>
    /\ \E n \in 0..MaxInsights :
          \E f \in [1..n -> [userId : Users, isRead : BOOLEAN]] :
             entities = InsightsFrom(n, f)
    /\ now = 0
    /\ response = NoResponse
    /\ mailLog = <<>>

NextInsights ==
    \E u \in Users \cup {NoUser}, id \in 1..(MaxInsights + 1) : MarkInsightRead(u, id)

SpecInsights == InitInsights /\ [][NextInsights]_vars

-----------------------------------------------------------------------------
(* SpecKeywords: categorizeTxByDescription of config/categories.ts applied *)
(* to descriptions built from the keywords of CATEGORY_KEYWORDS.  A        *)
(* description is a string; a category id is the number its 24 hex digits  *)
(* write.                                                                  *)

\* CATEGORY_KEYWORDS, in the order Object.entries lists it: the order the
\* keys are written in
CATEGORY_KEYWORDS ==
    <<
       <<"rent", 1>>, <<"mortgage", 1>>, <<"apartment", 1>>,
       <<"housing", 1>>, <<"restaurant", 2>>, <<"cafe", 2>>,
       <<"grocery", 2>>, <<"takeout", 2>>, <<"food", 2>>,
       <<"dining", 2>>, <<"gas", 3>>, <<"fuel", 3>>,
       <<"car", 3>>, <<"auto", 3>>, <<"bus", 3>>,
       <<"train", 3>>, <<"uber", 3>>, <<"lyft", 3>>,
       <<"taxi", 3>>, <<"movie", 4>>, <<"theatre", 4>>,
       <<"theater", 4>>, <<"concert", 4>>, <<"streaming", 4>>,
       <<"netflix", 4>>, <<"spotify", 4>>, <<"amazon", 5>>,
       <<"walmart", 5>>, <<"target", 5>>, <<"store", 5>>,
       <<"shopping", 5>>, <<"purchase", 5>>, <<"electric", 6>>,
       <<"water", 6>>, <<"gas bill", 6>>, <<"utility", 6>>,
       <<"internet", 6>>, <<"phone", 6>>, <<"mobile", 6>>,
       <<"doctor", 7>>, <<"medical", 7>>, <<"clinic", 7>>,
       <<"hospital", 7>>, <<"pharmacy", 7>>, <<"prescription", 7>>,
       <<"school", 8>>, <<"college", 8>>, <<"university", 8>>,
       <<"tuition", 8>>, <<"course", 8>>, <<"book", 8>>,
       <<"salary", 13>>, <<"paycheck", 13>>, <<"income", 13>>,
       <<"wage", 13>>, <<"deposit", 13>>, <<"refund", 13>>,
       <<"other", 15>>, <<"misc", 15>>, <<"unknown", 15>>
    >>

Keywords == {CATEGORY_KEYWORDS[i][1] : i \in 1..Len(CATEGORY_KEYWORDS)}

UpperCase == "ABCDEFGHIJKLMNOPQRSTUVWXYZ"
LowerCase == "abcdefghijklmnopqrstuvwxyz"

\* one character through String.prototype.toLowerCase
LowerChar(ch) ==
    IF \E i \in 1..Len(UpperCase) : SubSeq(UpperCase, i, i) = ch
    THEN LET i == CHOOSE i \in 1..Len(UpperCase) : SubSeq(UpperCase, i, i) = ch
         IN  SubSeq(LowerCase, i, i)
    ELSE ch

RECURSIVE toLowerCase(_)
toLowerCase(s) ==
    IF Len(s) = 0 THEN s
    ELSE LowerChar(SubSeq(s, 1, 1)) \o toLowerCase(SubSeq(s, 2, Len(s)))

\* String.prototype.includes
includes(s, k) ==
    \E i \in 1..(Len(s) - Len(k) + 1) : SubSeq(s, i, i + Len(k) - 1) = k

\* for (const [keyword, categoryId] of Object.entries(CATEGORY_KEYWORDS)):
\* the first keyword the description contains decides
RECURSIVE KeywordLoop(_, _)
KeywordLoop(lowerDesc, from) ==
    IF from > Len(CATEGORY_KEYWORDS) THEN NoCategory
    ELSE IF includes(lowerDesc, toLowerCase(CATEGORY_KEYWORDS[from][1]))
         THEN CATEGORY_KEYWORDS[from][2]
    ELSE KeywordLoop(lowerDesc, from + 1)

categorizeTxByDescription(description) ==
    IF description = "" THEN NoCategory
    ELSE KeywordLoop(toLowerCase(description), 1)

KeywordResponse(description) ==
    [route |-> "categorizeTxByDescription", description |-> description,
     categoryId |-> categorizeTxByDescription(description)]

\* One call.
Categorize(description) ==
    /\ response' = KeywordResponse(description)
    /\ UNCHANGED <<routeTable, hasEmail, apiKeySet, adminKey, uploads,
                   transactions, budgets, categories, bills, entities, now,
                   mailLog>>

\* the keyword with its first letter in upper case
Capitalized(k) ==
    LET i == CHOOSE i \in 1..Len(LowerCase) :
                 SubSeq(LowerCase, i, i) = SubSeq(k, 1, 1)
    IN  SubSeq(UpperCase, i, i) \o SubSeq(k, 2, Len(k))

\* the descriptions tried: every keyword as written, capitalized and inside
\* a longer text, the empty description, and texts without any keyword
Descriptions ==
    Keywords
    \cup {Capitalized(k) : k \in Keywords}
    \cup {"POS 0042 " \o k \o " #7" : k \in Keywords}
    \cup {"", "ATM 0042", "Gift", "ga s bill"}

InitKeywords ==
    /\ routeTable = "mongo-routes"
    /\ hasEmail = UserHasEmail
    /\ apiKeySet = TRUE
    /\ adminKey = NoKey
    /\ uploads = {}
    /\ transactions = <<>>
    /\ budgets = <<>>
    /\ categories = SeedCategories
    /\ bills = <<>>
    /\ entities = <<>>
    /\ now = 0
    /\ response = NoResponse
    /\ mailLog = <<>>

NextKeywords == \E description \in Descriptions : Categorize(description)

SpecKeywords == InitKeywords /\ [][NextKeywords]_vars

-----------------------------------------------------------------------------
(* SpecUpload: POST /api/ai/analyze-receipt with its upload middleware.     *)
(* upload.single("receiptImage") runs before the handler: multer writes an  *)
(* image part to the uploads directory under a fresh name and sets          *)
(* req.file; a part that is not an image is skipped by fileFilter.  A file  *)
(* is named by a small natural.                                             *)

MaxUploads == 3
NoFile == 0
UploadParts == {"none", "image", "other"}

\* filename: Date.now() + "-" + random: a name no stored file has
FreshName == CHOOSE n \in 1..(Cardinality(uploads) + 1) : n \notin uploads

\* req.file after upload.single(...): the written file, or undefined
UploadedFile(part) == IF part = "image" THEN FreshName ELSE NoFile

ReceiptResponse(u, part, file, called, answer) ==
    [route |-> "POST /api/ai/analyze-receipt", user |-> u, part |-> part,
     file |-> file, called |-> called, status |-> answer.status,
     error |-> answer.error]

\* One request.  With a user and a file the handler reads the file, calls
\* analyzeReceipt and unlinks the file on both the success and the catch
\* path; the 401 return comes before any fs.unlinkSync.
AnalyzeReceipt(u, part, outcome) ==
    /\ Cardinality(uploads) < MaxUploads
    /\ LET file == UploadedFile(part)
           pre == AiPrecheck("/api/ai/analyze-receipt", u, file # NoFile)
           written == IF file = NoFile THEN uploads ELSE uploads \cup {file}
       IN  /\ uploads' = IF pre = 0 THEN written \ {file} ELSE written
           /\ response' =
                IF pre # 0
                THEN ReceiptResponse(u, part, file, NotCalled, AiAnswer(pre, ""))
                ELSE IF outcome = "ok"
                     THEN ReceiptResponse(u, part, file, outcome, AiAnswer(200, ""))
                     ELSE ReceiptResponse(u, part, file, outcome,
                                          AiErrorAnswer(outcome))
    /\ UNCHANGED <<routeTable, hasEmail, apiKeySet, adminKey, transactions,
                   budgets, categories, bills, entities, now, mailLog>>

\* the directory is tidied by hand
RemoveUpload(file) ==
    /\ file \in uploads
    /\ uploads' = uploads \ {file}
    /\ response' = [route |-> "rm", file |-> file]
    /\ UNCHANGED <<routeTable, hasEmail, apiKeySet, adminKey, transactions,
                   budgets, categories, bills, entities, now, mailLog>>

NextUpload ==
    \/ \E u \in Users \cup {NoUser}, part \in UploadParts, outcome \in AiOutcomes :
          AnalyzeReceipt(u, part, outcome)
    \/ \E file \in 1..MaxUploads : RemoveUpload(file)

SpecUpload == InitAi /\ [][NextUpload]_vars

-----------------------------------------------------------------------------
(* SpecInterleave: PATCH /api/<kind>/:id of the Mongo tables taken one      *)
(* await at a time.  The handler first awaits storage.getXById and tests    *)
(* the owner, then awaits storage.updateX; other requests run between the   *)
(* two.  The response variable holds the requests received so far, each     *)
(* with its position and its answer, and the order in which the storage     *)
(* applied the updates.                                                     *)

MaxRequests == 2

Requests == response.requests

PatchRequest(u, kind, id, body, before, pc, status) ==
    [user |-> u, kind |-> kind, id |-> id, body |-> body, before |-> before,
     readAfter |-> Len(response.applied), pc |-> pc, status |-> status]

Interleaved(requests, applied) ==
    [route |-> "interleaved", requests |-> requests, applied |-> applied]

\* const x = await storage.getXById(req.params.id); 404 / 403, else go on
PatchRead(u, kind, id, body) ==
    /\ Len(Requests) < MaxRequests
    /\ LET pre == Precheck(routeTable, kind, id, u)
           request == PatchRequest(u, kind, id, body, getById(kind, id),
                                   IF pre = 0 THEN "update" ELSE "done", pre)
       IN  response' = Interleaved(Append(Requests, request), response.applied)
    /\ UNCHANGED entities
    /\ CrudUnchanged

\* .update(table).set(data).where(eq(id)): the fields of the body replace
\* the stored ones
updateById(docs, id, body) ==
    [docs EXCEPT ![id] =
        [@ EXCEPT !.val = body.val,
                  !.userId = IF body.userId = NoUser THEN @ ELSE body.userId]]

\* a handler that would compare the document with the one it read and
\* answer 409 when another request changed it in between
PatchWriteIfUnchanged(r) ==
    /\ r \in 1..Len(Requests)
    /\ Requests[r].pc = "update"
    /\ LET request == Requests[r]
           same == getById(request.kind, request.id) = request.before
       IN  /\ entities' = IF same
                          THEN updateById(entities, request.id, request.body)
                          ELSE entities
           /\ response' = Interleaved(
                  [Requests EXCEPT ![r].pc = "done",
                                   ![r].status = IF same THEN 200 ELSE 409],
                  IF same THEN Append(response.applied, r) ELSE response.applied)
    /\ CrudUnchanged

\* const updated = await storage.updateX(req.params.id, updateData);
\* res.json(updated)
PatchWrite(r) ==
    /\ r \in 1..Len(Requests)
    /\ Requests[r].pc = "update"
    /\ LET request == Requests[r]
       IN  /\ entities' = updateById(entities, request.id, request.body)
           /\ response' = Interleaved(
                  [Requests EXCEPT ![r].pc = "done", ![r].status = 200],
                  Append(response.applied, r))
    /\ CrudUnchanged

StoredKinds == {"transactions", "accounts"}

InitInterleave ==
    /\ routeTable \in MongoTables
    /\ hasEmail = UserHasEmail
    /\ apiKeySet = TRUE
    /\ adminKey = NoKey
    /\ uploads = {}
    /\ transactions = <<>>
    /\ budgets = <<>>
    /\ categories = <<>>
    /\ bills = <<>>
    /\ \E kind \in StoredKinds, owner \in Users :
          entities = <<Entity(kind, 1, owner, 1)>>
    /\ now = 0
    /\ response = Interleaved(<<>>, <<>>)
    /\ mailLog = <<>>

\* bodies with and without a userId field; requests for the stored entity
\* by each requester, and one for an id that is not stored
InterleaveBodies ==
    {[val |-> 1, userId |-> NoUser], [val |-> 2, userId |-> NoUser],
     [val |-> 2, userId |-> 2]}

InterleaveRequests ==
    {[user |-> u, id |-> 1, body |-> body] :
        u \in Users \cup {NoUser}, body \in InterleaveBodies}
    \cup {[user |-> 1, id |-> 2, body |-> [val |-> 1, userId |-> NoUser]]}

NextInterleave ==
    \/ \E request \in InterleaveRequests :
          PatchRead(request.user, entities[1].kind, request.id, request.body)
    \/ \E r \in 1..MaxRequests : PatchWrite(r)

SpecInterleave == InitInterleave /\ [][NextInterleave]_vars

-----------------------------------------------------------------------------
(* SpecRace: several POST /api/transactions requests in progress at once.  *)
(* Each request awaits storage.createTransaction, and only then the reads   *)
(* of the alert evaluation; the steps of other requests run in between.     *)
(* The response variable holds the requests received so far.                *)

Racing(requests) == [route |-> "racing", requests |-> requests]

RaceRequest(u, t, pc, status, alerts) ==
    [user |-> u, transaction |-> t, pc |-> pc, status |-> status,
     alerts |-> alerts, storedAtAnswer |-> Len(transactions)]

\* the handler up to and including `await storage.createTransaction(...)`
RaceCreate(u, body) ==
    /\ Len(Requests) < MaxRequests
    /\ LET t == Tx(Len(transactions) + 1, u, body.categoryId, body.amount,
                   body.isIncome)
       IN  IF u = NoUser
           THEN /\ response' = Racing(Append(Requests,
                                   RaceRequest(u, NoTx, "done", 401, <<>>)))
                /\ UNCHANGED transactions
           ELSE /\ transactions' = Append(transactions, t)
                /\ response' = Racing(Append(Requests,
                                   RaceRequest(u, t, "evaluate", 0, <<>>)))
    /\ UNCHANGED <<routeTable, hasEmail, apiKeySet, adminKey, uploads,
                   budgets, categories, bills, entities, now, mailLog>>

\* the rest of the handler: the reads, checkBudgetAlerts, the emails and the
\* answer; the alerts are in the answer unless a send threw
RaceEvaluate(r, providerOk) ==
    /\ r \in 1..Len(Requests)
    /\ Requests[r].pc = "evaluate"
    /\ LET u == Requests[r].user
           t == Requests[r].transaction
           evaluates == t.categoryId # NoCategory /\ ~t.isIncome
           alerts == IF evaluates THEN checkBudgetAlerts(Storage, t) ELSE NullAlerts
           n == NotifyLoop(routeTable, alerts, u, providerOk)
       IN  /\ mailLog' = mailLog \o n.sent
           /\ response' = Racing([Requests EXCEPT ![r] =
                 RaceRequest(u, t, "done", 201, IF n.threw THEN <<>> ELSE alerts)])
    /\ UNCHANGED <<routeTable, hasEmail, apiKeySet, adminKey, uploads,
                   transactions, budgets, categories, bills, entities, now>>

RaceAmounts == {50, 90}

RaceBodies ==
    {[categoryId |-> 1, amount |-> a, isIncome |-> FALSE] : a \in RaceAmounts}
    \cup {[categoryId |-> 2, amount |-> 50, isIncome |-> FALSE],
          [categoryId |-> 1, amount |-> 50, isIncome |-> TRUE]}

\* each user has one budget of 100 for category 1; user 1 has an email
\* address, user 2 has none
InitRace ==
    /\ routeTable \in MongoTables
    /\ hasEmail = UserHasEmail
    /\ apiKeySet = TRUE
    /\ adminKey = NoKey
    /\ uploads = {}
    /\ transactions = <<>>
    /\ budgets = <<Budget(1, 1, 1, 100, DefaultAlertThreshold),
                   Budget(2, 2, 1, 100, DefaultAlertThreshold)>>
    /\ categories = SeedCategories
    /\ bills = <<>>
    /\ entities = <<>>
    /\ now = 0
    /\ response = Racing(<<>>)
    /\ mailLog = <<>>

NextRace ==
    \/ \E u \in Users \cup {NoUser}, body \in RaceBodies : RaceCreate(u, body)
    \/ \E r \in 1..MaxRequests, providerOk \in BOOLEAN : RaceEvaluate(r, providerOk)

SpecRace == InitRace /\ [][NextRace]_vars

-----------------------------------------------------------------------------
(* What the claims compare the code with.                                  *)

\* The transactions of user u that count as spend in category c.
RECURSIVE SpendSelect(_, _)
SpendSelect(txs, c) ==
    IF Len(txs) = 0 THEN <<>>
    ELSE IF Len(txs) = 1
         THEN (IF ~txs[1].isIncome /\ txs[1].categoryId = c
               THEN <<txs[1]>> ELSE <<>>)
    ELSE LET half == Len(txs) \div 2
         IN  SpendSelect(SubSeq(txs, 1, half), c)
             \o SpendSelect(SubSeq(txs, half + 1, Len(txs)), c)

SpendTxs(u, c) == SpendSelect(SelectByUser(transactions, u), c)

\* The transactions of user u that the aggregator ignores.
IgnoredTxs(u) ==
    SelectSeq(transactions,
              LAMBDA t : t.userId = u /\ (t.isIncome \/ t.categoryId = NoCategory))

RECURSIVE SumAmounts(_)
SumAmounts(txs) ==
    IF txs = <<>> THEN 0
    ELSE IF Len(txs) = 1 THEN txs[1].amount
    ELSE LET half == Len(txs) \div 2
         IN  SumAmounts(SubSeq(txs, 1, half))
             + SumAmounts(SubSeq(txs, half + 1, Len(txs)))

SpendOf(u, c) == SumAmounts(SpendTxs(u, c))

IsAlertsResponse == response.route = "GET /api/budgets/alerts" /\ response.status = 200
IsCheckResponse == response.route = "checkBudgetAlerts"
IsSpendingResponse == response.route = "GET /api/budgets/spending" /\ response.status = 200

\* The alerts an evaluation result holds for budget b.
AlertsOf(body, b) ==
    SelectSeq(body, LAMBDA a : a.categoryId = b.categoryId /\ a.amount = b.amount)

\* The alert list the claim prescribes for budget b at spend s (amount > 0).
ClaimedAlerts(b, s) ==
    IF s > b.amount \/ ExactPercent(s, b.amount) >= b.alertThreshold
    THEN <<[amount |-> b.amount, spent |-> s,
            percentSpent |-> JsNum(ExactPercent(s, b.amount)),
            isExceeded |-> s > b.amount]>>
    ELSE <<>>

AlertFacts(body) ==
    [i \in 1..Len(body) |->
        [amount |-> body[i].amount, spent |-> body[i].spent,
         percentSpent |-> body[i].percentSpent, isExceeded |-> body[i].isExceeded]]

\* The evaluation result under inspection and the budget and spend it is about.
EvaluatedBudget == budgets[1]

EvaluationDone ==
    \/ IsAlertsResponse /\ response.user = EvaluatedBudget.userId
    \/ /\ IsCheckResponse
       /\ ~response.tx.isIncome
       /\ response.tx.categoryId = EvaluatedBudget.categoryId
       /\ response.tx.userId = EvaluatedBudget.userId

EvaluatedSpend == SpendOf(EvaluatedBudget.userId, EvaluatedBudget.categoryId)

\* C1: for a budget with amount > 0 the evaluation emits an alert iff
\* spend > amount (isExceeded) or round(100 * spend / amount) >= alertThreshold
\* (not exceeded), and the alert carries percentSpent = round(100 * spend / amount).
C1_AlertIffThreshold ==
    (EvaluationDone /\ EvaluatedBudget.amount > 0)
        => AlertFacts(response.body) = ClaimedAlerts(EvaluatedBudget, EvaluatedSpend)

\* C2: for a budget with amount 0 the evaluation yields isExceeded = (spend > 0)
\* and percentSpent = 0: an exceeded alert with percentSpent 0 when spend > 0,
\* no exceeded alert when spend = 0.
C2_ZeroAmountBudget ==
    (EvaluationDone /\ EvaluatedBudget.amount = 0)
        => /\ EvaluatedSpend > 0 =>
                /\ Len(response.body) = 1
                /\ response.body[1].isExceeded
                /\ response.body[1].percentSpent = JsNum(0)
           /\ EvaluatedSpend = 0 =>
                \A i \in 1..Len(response.body) :
                    /\ ~response.body[i].isExceeded
                    /\ response.body[i].percentSpent = JsNum(0)

\* C3: the spend mapping has, for each category id, exactly the sum of the
\* amounts of the user's non-income transactions of that category, and an
\* entry only for a category that has such a transaction.
C3_SpendPerCategory ==
    IsSpendingResponse =>
        /\ \A c \in CategoryIds \cup {NoCategory} :
              /\ MapHas(response.body, c) <=> SpendTxs(response.user, c) # <<>> /\ c # NoCategory
              /\ MapHas(response.body, c) =>
                    MapGetOr0(response.body, c) = SpendOf(response.user, c)
        /\ \A i, j \in 1..Len(response.body) :
              response.body[i].categoryId = response.body[j].categoryId => i = j

C3_Witness ==
    /\ IsSpendingResponse
    /\ Len(response.body) = 1
    /\ Len(SpendTxs(response.user, response.body[1].categoryId)) = 2
    /\ IgnoredTxs(response.user) = <<>>

\* C4: the sum of the per-category totals plus the sum of the amounts of the
\* ignored (income or uncategorized) transactions equals the sum of the
\* amounts of all the user's transactions.
MapTotal(m) == SumSeq([i \in 1..Len(m) |-> m[i].spent])

C4_TotalsAddUp ==
    IsSpendingResponse =>
        MapTotal(response.body) + SumAmounts(IgnoredTxs(response.user))
            = SumAmounts(SelectByUser(transactions, response.user))

C4_Witness ==
    /\ IsSpendingResponse
    /\ Len(response.body) >= 1
    /\ IgnoredTxs(response.user) # <<>>

-----------------------------------------------------------------------------
(* POST /api/transactions.                                                 *)

IsCreateResponse == response.route = "POST /api/transactions"

\* The request stored a transaction that the handler evaluates for alerts,
\* every storage call succeeded and the requester has an email address.
EvaluatedCreate ==
    /\ IsCreateResponse
    /\ response.stored
    /\ response.failure = "none"
    /\ hasEmail[response.user]
    /\ ~response.transaction.isIncome
    /\ response.transaction.categoryId # NoCategory

CreatedBudgets ==
    SelectSeq(budgets, LAMBDA b : /\ b.userId = response.user
                                  /\ b.categoryId = response.transaction.categoryId)

\* C6: a created non-income transaction whose category has a budget and whose
\* category spend, the new transaction included, exceeds the budget amount is
\* answered 201 with exactly one alert (isExceeded, spent = that spend,
\* percentSpent = round(100 * spent / amount)) and exactly one email attempt.
C6_ExceedingCreateAlerts ==
    (/\ EvaluatedCreate
     /\ CreatedBudgets # <<>>
     /\ SpendOf(response.user, response.transaction.categoryId)
            > Head(CreatedBudgets).amount)
        => LET b == Head(CreatedBudgets)
               spend == SpendOf(response.user, response.transaction.categoryId)
           IN  /\ response.status = 201
               /\ Len(response.alerts) = 1
               /\ response.alerts[1].isExceeded
               /\ response.alerts[1].spent = spend
               /\ response.alerts[1].percentSpent = JsNum(ExactPercent(spend, b.amount))
               /\ response.notifyCalls = 1

\* C7: whenever the transaction was stored the answer is 201 with the created
\* transaction, whatever happened to the alert evaluation and the alert email.
C7_StoredAnswers201 ==
    (IsCreateResponse /\ response.stored)
        => /\ response.status = 201
           /\ response.transaction = transactions[Len(transactions)]

\* C8: the alert evaluation of a create runs only for a non-income transaction
\* with a category, its alerts all carry that transaction's categoryId, one
\* notification is triggered per returned alert, and an income or
\* uncategorized create returns no alerts and triggers no notification.
C8_AlertsOfCreatedCategory ==
    (/\ IsCreateResponse
     /\ response.stored
     /\ response.failure = "none"
     /\ hasEmail[response.user])
        => LET t == response.transaction
           IN  /\ response.evaluated => ~t.isIncome /\ t.categoryId # NoCategory
               /\ \A i \in 1..Len(response.alerts) :
                     response.alerts[i].categoryId = t.categoryId
               /\ response.notifyCalls = Len(response.alerts)
               /\ (t.isIncome \/ t.categoryId = NoCategory)
                     => response.alerts = <<>> /\ response.notifyCalls = 0

\* C9: every notification sender returns a boolean and never throws to its
\* caller; it returns true exactly when the API key is set and the provider
\* accepted the message.
C9_DispatchReturnsBoolean ==
    response.route = "dispatch"
        => /\ ~response.threw
           /\ response.result \in BOOLEAN
           /\ response.result <=> (apiKeySet /\ response.providerOk)

-----------------------------------------------------------------------------
(* Bill reminders.                                                         *)

IsReminderResponse ==
    response.route = "POST /api/bill-reminders/check" /\ response.status = 200

BillIds(P(_)) == {b.id : b \in {x \in Range(bills) : P(x)}}

\* C5: a check sends a reminder for an unpaid bill of the user iff
\* 0 <= daysToDue <= bill.reminderDays, daysToDue being the whole number of
\* days from today to the due date, for every reminderDays value.
C5_ReminderIffWithinReminderDays ==
    (IsReminderResponse /\ hasEmail[response.user])
        => Range(response.reminded) =
              BillIds(LAMBDA b :
                  /\ b.userId = response.user
                  /\ ~b.isPaid
                  /\ 0 <= differenceInDays(b.dueDate, response.at)
                  /\ differenceInDays(b.dueDate, response.at) <= b.reminderDays)

\* C5 as the code has it: a check sends exactly one reminder for each unpaid
\* bill of a user with an email address whose due instant lies between now
\* and now + 30 days and whose whole days to due are at most reminderDays; it
\* sends none for any other bill.
C5_ReminderIffUpcomingWithinReminderDays ==
    IsReminderResponse
        => /\ Range(response.reminded) =
                 BillIds(LAMBDA b :
                     /\ hasEmail[response.user]
                     /\ b.userId = response.user
                     /\ ~b.isPaid
                     /\ response.at <= b.dueDate
                     /\ b.dueDate <= response.at + UpcomingDays * TicksPerDay
                     /\ differenceInDays(b.dueDate, response.at) <= b.reminderDays)
           /\ Cardinality(Range(response.reminded)) = Len(response.reminded)

\* a reminder went out for a bill due in exactly reminderDays (> 0) days
C5_Witness ==
    /\ IsReminderResponse
    /\ \E b \in Range(bills) :
          /\ b.id \in Range(response.reminded)
          /\ b.reminderDays > 0
          /\ differenceInDays(b.dueDate, response.at) = b.reminderDays

-----------------------------------------------------------------------------
(* Per-id endpoints.                                                       *)

IsPerIdResponse == response.route = "per-id"

PerIdUnchanged ==
    /\ response.id \in 1..Len(entities)
    /\ entities[response.id] = response.before

-----------------------------------------------------------------------------
(* Stored transactions.                                                    *)

\* C11: every stored transaction has amount >= 0, whatever sequence of manual
\* creations, updates, Plaid initial imports and Plaid syncs produced it.
C11_AmountsNonNegative ==
    \A i \in 1..Len(transactions) : transactions[i].amount >= 0

-----------------------------------------------------------------------------
(* Routing.                                                                *)

IsGetResponse == response.route = "GET"

\* C12: GET /api/budgets/spending is answered by the per-category spend
\* mapping and GET /api/budgets/alerts by the alert list; neither is handled
\* by the /api/budgets/:id handler, in every version of the route table.
C12_SpendingAndAlertsReached ==
    IsGetResponse
        => /\ response.path = WordSegment("spending")
                => /\ response.handler = "/api/budgets/spending"
                   /\ response.answer = SpendingResponse(response.user)
           /\ response.path = WordSegment("alerts")
                => /\ response.handler = "/api/budgets/alerts"
                   /\ response.answer = AlertsResponse(response.user)

StoredDocuments == <<transactions, budgets, categories, bills, entities>>

StoredCategoryIds == {categories[i].id : i \in 1..Len(categories)}

EmittedAlerts ==
    IF IsCreateResponse THEN response.alerts
    ELSE IF /\ IsGetResponse
            /\ response.handler = "/api/budgets/alerts"
            /\ response.answer.status = 200
         THEN response.answer.body
    ELSE <<>>

\* the categories of user u that have been deleted: every category starts
\* out stored, and none is created later
DeletedCategoryIds(u) ==
    {SeedCategories[i].id : i \in {j \in 1..Len(SeedCategories) :
                                      SeedCategories[j].userId = u}}
    \ StoredCategoryIds

C15_DeletedCategorySkipped ==
    \A i \in 1..Len(EmittedAlerts) :
        EmittedAlerts[i].categoryId \notin DeletedCategoryIds(response.user)

\* C16: the alert list of GET /api/budgets/alerts is, budget after budget in
\* the order of the user's budget list, the alert (at most one) that the same
\* budget gets when it is the user's only budget.
AlertsAlone(b, u) ==
    AlertsFold(<<b>>, categorySpending(getTransactionsByUserId(u)),
               getCategoriesByUserId(u))

RECURSIVE AlertsOneByOne(_, _)
AlertsOneByOne(bs, u) ==
    IF bs = <<>> THEN <<>>
    ELSE AlertsAlone(Head(bs), u) \o AlertsOneByOne(Tail(bs), u)

C16_OneAlertPerBudgetInOrder ==
    IsAlertsResponse =>
        LET bs == getBudgetsByUserId(response.user)
        IN  /\ \A i \in 1..Len(bs) : Len(AlertsAlone(bs[i], response.user)) <= 1
            /\ Len(response.body) <= Len(bs)
            /\ response.body = AlertsOneByOne(bs, response.user)

\* two budgets of one user, each with its own alert
C16_Witness ==
    /\ IsAlertsResponse
    /\ Len(getBudgetsByUserId(response.user)) = 2
    /\ Len(response.body) = 2
    /\ response.body[1] # response.body[2]

\* C17: the spend an alert reports for a category is the sum of the amounts
\* of all stored non-income transactions of the user in that category,
\* however many there are.
EvaluatedUser == IF IsCheckResponse THEN response.tx.userId ELSE response.user

C17_SpendOverAllTransactions ==
    (IsAlertsResponse \/ IsCheckResponse)
        => \A c \in CategoryIds : \A i \in 1..Len(response.body) :
              response.body[i].categoryId = c
                 => response.body[i].spent = SpendOf(EvaluatedUser, c)

\* C18: POST /api/transactions stores the transaction before it evaluates
\* the alerts or sends an email, and no later step (a failing history read or
\* alert check, a failing email, a stop of the process after the store)
\* removes or alters a stored transaction.
EvaluatedOrMailed ==
    \/ mailLog' # mailLog
    \/ response'.route = "POST /api/transactions" /\ response'.evaluated

C18_StoredBeforeEvaluationAndKept ==
    [][/\ \A i \in 1..Len(transactions) :
             i <= Len(transactions') /\ transactions'[i] = transactions[i]
       /\ EvaluatedOrMailed
             => /\ InFlight
                /\ transactions[Len(transactions)] = response.transaction
                /\ response'.transaction = response.transaction
       /\ (InFlight /\ response' # response)
             => transactions'[Len(transactions')] = response.transaction]_vars

\* the process stopped between the store and the evaluation of a
\* transaction that would have raised an alert
C18_Witness ==
    /\ response.route = "crashed"
    /\ transactions[Len(transactions)] = response.transaction
    /\ checkBudgetAlerts(Storage, response.transaction) # NullAlerts

-----------------------------------------------------------------------------
(* Repeated bill-reminder checks.                                          *)

\* the step is a reminder check that ran for a signed-in user
CheckStep ==
    /\ response'.route = "POST /api/bill-reminders/check"
    /\ response'.status = 200
    /\ now' = now
    /\ bills' = bills

\* the positions of the messages the step adds to the log
NewMail == (Len(mailLog) + 1)..Len(mailLog')

\* the stored bill is unpaid, owned by u and inside its reminder window now
InWindow(b, u) ==
    /\ b.userId = u
    /\ ~b.isPaid
    /\ now <= b.dueDate
    /\ b.dueDate <= now + UpcomingDays * TicksPerDay
    /\ differenceInDays(b.dueDate, now) <= b.reminderDays

\* C19: the matcher keeps no record of the reminders it sent: every check
\* made for a user with an email address sends exactly one reminder for each
\* of the user's bills that is unpaid and inside its reminder window, whatever
\* reminders of that bill the log already holds, so n checks in the window
\* send n reminders of the bill.
C19_EveryCheckRemindsAgain ==
    [][(CheckStep /\ hasEmail[response'.user])
          => \A b \in Range(bills) :
                InWindow(b, response'.user)
                   => Cardinality({i \in NewMail : mailLog'[i].billId = b.id}) = 1]_vars

\* two reminders of one bill that is still unpaid
C19_Witness ==
    \E i, j \in 1..Len(mailLog) :
        /\ i < j
        /\ mailLog[i].billId = mailLog[j].billId
        /\ \E b \in Range(bills) : b.id = mailLog[i].billId /\ ~b.isPaid

\* C20: only a reminder check sends reminders, and every reminder it sends
\* goes to the checked user and concerns a bill that, at the time of the
\* check, is unpaid, owned by that user and due within the 30-day lookahead;
\* no reminder is sent for a paid bill.
C20_RemindersOnlyForUnpaidOwnedUpcoming ==
    [][/\ mailLog' # mailLog => CheckStep
       /\ CheckStep
             => \A i \in NewMail :
                   /\ mailLog'[i].to = response'.user
                   /\ \E b \in Range(bills) :
                         /\ b.id = mailLog'[i].billId
                         /\ ~b.isPaid
                         /\ b.userId = response'.user
                         /\ now <= b.dueDate
                         /\ b.dueDate <= now + UpcomingDays * TicksPerDay]_vars

\* a bill that was reminded of, has been paid since and is still due inside
\* its window: the owner's latest check sent nothing
C20_Witness ==
    /\ IsReminderResponse
    /\ response.reminded = <<>>
    /\ response.at = now
    /\ \E b \in Range(bills) :
          /\ b.userId = response.user
          /\ b.isPaid
          /\ Reminded(mailLog, b)
          /\ now <= b.dueDate
          /\ differenceInDays(b.dueDate, now) <= b.reminderDays

-----------------------------------------------------------------------------
(* Interleaved updates.                                                    *)

\* the request was made by the owner of a stored entity, as its handler read it
ByOwner(request) ==
    /\ request.before # NoEntity
    /\ request.user = request.before.userId

\* C21: when update requests by the owner of an entity interleave, none of
\* them is rejected (each is answered 200 once its update is applied, whatever
\* the others did between its ownership read and its write), and the stored
\* entity carries the values of the update the storage applied last.
C21_LastWriteWins ==
    response.route = "interleaved"
        => /\ \A r \in 1..Len(Requests) :
                 ByOwner(Requests[r])
                    => \/ Requests[r].pc = "update" /\ Requests[r].status = 0
                       \/ Requests[r].pc = "done" /\ Requests[r].status = 200
           /\ response.applied # <<>>
                 => LET last == Requests[response.applied[Len(response.applied)]]
                    IN  /\ entities[last.id].val = last.body.val
                        /\ last.body.userId # NoUser
                              => entities[last.id].userId = last.body.userId

\* two requests by the owner both passed the ownership test before either
\* update was applied, wrote different values, and the first request's update
\* was applied last
C21_Witness ==
    /\ response.route = "interleaved"
    /\ Len(Requests) = 2
    /\ \A r \in 1..2 : /\ ByOwner(Requests[r])
                       /\ Requests[r].readAfter = 0
                       /\ Requests[r].status = 200
                       /\ Requests[r].id = 1
    /\ Requests[1].body.val # Requests[2].body.val
    /\ response.applied = <<2, 1>>
    /\ entities[1].val = Requests[1].body.val

-----------------------------------------------------------------------------
(* Stored insights.                                                        *)

AdviceAnswered == /\ response'.route = "AI"
                  /\ response'.endpoint = "/api/ai/financial-advice"

\* C22: a request to POST /api/ai/financial-advice whose advice call succeeds
\* appends exactly one insight, unread and owned by the requester; a request
\* whose advice call fails, or that never reaches it, stores none; the
\* request writes no other stored document.
C22_OneInsightPerAdvice ==
    [][AdviceAnswered
          => /\ UNCHANGED <<transactions, budgets, categories, bills>>
             /\ IF response'.called = "ok"
                THEN /\ response'.status = 200
                     /\ entities' = Append(entities,
                                           Insight(Len(entities) + 1,
                                                   response'.user, FALSE))
                     /\ response'.user \in Users
                ELSE entities' = entities]_vars

\* an advice request that succeeded and left its unread insight behind
C22_Witness ==
    /\ response.route = "AI"
    /\ response.endpoint = "/api/ai/financial-advice"
    /\ response.called = "ok"
    /\ Len(entities) = 1
    /\ entities[1] = Insight(1, response.user, FALSE)

-----------------------------------------------------------------------------
(* The two evaluators compared.                                            *)

\* the alerts of the bulk evaluation that are about category c
RECURSIVE AlertsOfCategory(_, _)
AlertsOfCategory(alerts, c) ==
    IF alerts = <<>> THEN <<>>
    ELSE IF Head(alerts).categoryId = c
         THEN <<Head(alerts)>> \o AlertsOfCategory(Tail(alerts), c)
         ELSE AlertsOfCategory(Tail(alerts), c)

HasBudgetFor(t) ==
    \E i \in 1..Len(budgets) : /\ budgets[i].userId = t.userId
                               /\ budgets[i].categoryId = t.categoryId

\* C23: for a transaction whose category has a budget, checkBudgetAlerts
\* returns the alert records that GET /api/budgets/alerts lists for that
\* category (none where it lists none; a record listed twice counts once),
\* also when the category has more than one budget.
C23_IncrementalEqualsBulk ==
    (/\ response.route = "checkBudgetAlerts"
     /\ HasBudgetFor(response.tx))
        => Range(response.body)
              = Range(AlertsOfCategory(budgetAlerts(response.tx.userId),
                                       response.tx.categoryId))

-----------------------------------------------------------------------------
(* The all-users reminder run.                                             *)

IsAdminResponse == response.route = "POST /api/admin/bill-reminders/check"

\* C24: the all-users run starts only for a request whose body carries the
\* configured admin key; a request with any other key, with no apiKey field,
\* or made while no admin key is configured is answered 403 and sends nothing.
C24_RunOnlyWithConfiguredKey ==
    IsAdminResponse
        => IF adminKey # NoKey /\ response.apiKey = adminKey
           THEN response.status = 200
           ELSE response.status = 403 /\ response.reminded = <<>>

\* the step is a run over all users started by the admin endpoint
AdminRun ==
    /\ response'.route = "POST /api/admin/bill-reminders/check"
    /\ response'.status = 200
    /\ response'.listed

\* C29: a run of sendAllBillReminders comes back without throwing and checks
\* every user of getAllUsers in order: each user whose lookups answer and who
\* has an email address gets exactly one reminder for every bill inside its
\* window, whether or not the users before it were missing, had no email or
\* had a failing check, and a user's reminders come after those of the users
\* listed before it.
C29_EveryUserChecked ==
    [][AdminRun
          => /\ \A u \in Users :
                  (response'.fate[u] = "found" /\ hasEmail[u])
                     => \A b \in Range(bills) :
                           InWindow(b, u)
                              => Cardinality({i \in NewMail :
                                                 /\ mailLog'[i].billId = b.id
                                                 /\ mailLog'[i].to = u}) = 1
             /\ \A i, j \in NewMail :
                   i < j => mailLog'[i].to <= mailLog'[j].to]_vars

\* a run in which the first user's check went wrong (no such user, no email
\* address, or a rejected lookup) and the second user was reminded of two bills
C29_Witness ==
    /\ IsAdminResponse
    /\ response.status = 200
    /\ response.listed
    /\ response.fate[1] # "found" \/ ~hasEmail[1]
    /\ Len(response.reminded) = 2
    /\ \A i \in 1..2 : mailLog[i].to = 2

-----------------------------------------------------------------------------
(* Interleaved creations.                                                  *)

\* requests p and q have both been answered 201, by one user, each for an
\* expense in category c
BothCreated(p, q, c) ==
    /\ p # q
    /\ Requests[p].user = Requests[q].user
    /\ \A r \in {p, q} : /\ Requests[r].status = 201
                         /\ Requests[r].transaction.categoryId = c
                         /\ ~Requests[r].transaction.isIncome

CarriesAlert(request, c) ==
    \E i \in 1..Len(request.alerts) : request.alerts[i].categoryId = c

\* C25: when two requests of a user have each created an expense in a budgeted
\* category and the category's spend with both stored reaches the alert
\* threshold of the budget, at least one of the two answers carries the alert
\* for that category, in whatever order their steps were taken.
C25_OneAnswerCarriesTheAlert ==
    response.route = "racing"
        => \A p, q \in 1..Len(Requests) : \A b \in Range(budgets) :
              (/\ BothCreated(p, q, b.categoryId)
               /\ b.userId = Requests[p].user
               /\ \/ SpendOf(b.userId, b.categoryId) > b.amount
                  \/ ExactPercent(SpendOf(b.userId, b.categoryId), b.amount)
                        >= b.alertThreshold)
                 => \/ CarriesAlert(Requests[p], b.categoryId)
                    \/ CarriesAlert(Requests[q], b.categoryId)

-----------------------------------------------------------------------------
(* Uploaded receipts.                                                      *)

IsReceiptResponse == response.route = "POST /api/ai/analyze-receipt"

\* C26: once POST /api/ai/analyze-receipt has answered, the file that the
\* upload middleware wrote for the request is gone from the uploads directory,
\* whether the request succeeded, failed in the AI call (quota or other) or
\* was rejected as unauthenticated.
C26_UploadedFileRemoved ==
    (IsReceiptResponse /\ response.file # NoFile)
        => response.file \notin uploads

-----------------------------------------------------------------------------
(* Repeated Plaid syncs.                                                   *)

\* the step is a sync that ran its loop, made while the upstream list is as
\* the sync before it found it
RepeatedSync ==
    /\ response.status = 200
    /\ response'.status = 200
    /\ response'.route = "POST /api/plaid/sync-transactions (accountId)"
    /\ response'.upstream = response.upstream

\* C27: a sync that finds the upstream list as the previous sync left it stores
\* no transaction, so that no upstream transaction is stored, and counted in
\* category spend, more than once.
C27_SecondSyncStoresNothing ==
    [][RepeatedSync
          => /\ transactions' = transactions
             /\ response'.newTransactionsCount = 0]_vars

-----------------------------------------------------------------------------
(* Marking insights as read.                                               *)

\* C28: an insight's read flag is changed only by a request of the insight's
\* owner; a mark-as-read request of another user leaves the insight as it is
\* and is answered 403, and one for an insight that does not exist is
\* answered 404.
C28_ReadFlagChangedByOwnerOnly ==
    [][response'.route = "mark-read"
          => /\ entities' # entities
                  => /\ response'.before # NoEntity
                     /\ response'.before.userId = response'.user
             /\ (/\ response'.user # NoUser
                 /\ response'.before # NoEntity
                 /\ response'.before.userId # response'.user)
                  => response'.status = 403 /\ entities' = entities
             /\ (response'.user # NoUser /\ response'.before = NoEntity)
                  => response'.status = 404 /\ entities' = entities]_vars

-----------------------------------------------------------------------------
(* Keyword categorization.                                                 *)

Categorized == response.route = "categorizeTxByDescription"

\* the category the table maps keyword k to
TableCategory(k) ==
    CATEGORY_KEYWORDS[CHOOSE i \in 1..Len(CATEGORY_KEYWORDS) :
                         CATEGORY_KEYWORDS[i][1] = k][2]

\* C30: a description equal to a keyword of CATEGORY_KEYWORDS gets the
\* category the table maps that keyword to ('gas bill' gets Utilities), and
\* the result is null exactly when the description is empty or contains no
\* keyword of the table (letter case aside).
C30_KeywordGetsItsCategory ==
    Categorized
       => /\ response.description \in Keywords
             => response.categoryId = TableCategory(response.description)
          /\ response.categoryId = NoCategory
             <=> \/ response.description = ""
                 \/ \A k \in Keywords :
                       ~includes(toLowerCase(response.description), k)

====
